---- MODULE Spec2Model ----
\* Verification model of the Tenstorrent HAL memory layer of tt-iree:
\* the tile transcoder (tt_buffer.cc), the buffer object with its mapping
\* protocol (tt_buffer.cc / tt_buffer.c) and the allocator
\* (tt_allocator.cc / tt_allocator.c).
EXTENDS Integers, Sequences, FiniteSets, TLC

\* ---------------------------------------------------------------------------
\* Program constants
\* ---------------------------------------------------------------------------
TT_TILE_HEIGHT == 32
TT_TILE_WIDTH == 32
TT_TILE_SIZE == TT_TILE_HEIGHT * TT_TILE_WIDTH

\* ---------------------------------------------------------------------------
\* Bounds of the model
\* ---------------------------------------------------------------------------
\* Largest number of tiles along one dimension of a matrix handed to the
\* transcoder in SpecTile.
MaxTileDim == 2

\* Largest number of buffer objects alive at one time.
MaxBuffers == 1

\* Largest number of allocate_buffer calls in one run (the statistics
\* counters are cumulative and would otherwise grow without end).
MaxAllocs == 2

\* Largest number of deallocate_buffer calls in one run.
MaxDeallocs == 2

\* Content of memory that was obtained from malloc and never written.
Poison == 0 - 1
GarbageVals == {0, Poison}

VARIABLES
    t_pc,      \* position of the transcoder harness
    t_rows,    \* rows argument
    t_cols,    \* cols argument
    t_garbage, \* what freshly allocated destination arrays hold
    t_in,      \* the caller's input array
    t_mid,     \* destination of the first conversion
    t_out      \* destination of the second conversion

tileVars == <<t_pc, t_rows, t_cols, t_garbage, t_in, t_mid, t_out>>

VARIABLES
    mock,              \* TT_IREE_ENABLE_MOCK is defined in this build
    unit,              \* "cc": tt_allocator.cc + tt_buffer.cc are built,
                       \* "c": tt_allocator.c + tt_buffer.c are built
    tt_device,         \* what iree_hal_tt_device_handle(allocator->device)
                       \* answers: "open" (a session handle), or "null"
    allocator_created, \* iree_hal_tt_allocator_create has returned OK
    statistics,        \* allocator->statistics
    buffers,           \* the buffer objects that exist, by slot
    ret,               \* what the last call returned and wrote to its outputs
    alloc_calls,       \* number of allocate_buffer calls made so far
    expected_allocated,\* sum, over the allocate_buffer calls that returned OK,
                       \* of the smallest multiple of 32 >= the requested size
    dealloc_calls,     \* number of deallocate_buffer calls made so far
    mapping,           \* the caller's iree_hal_buffer_mapping_t
    ub,                \* some access went outside a live allocation: the
                       \* behaviour of the program is undefined from here on
                       \* and the model follows it no further
    rt,                \* observer of write-then-read sequences on a buffer
    staging_live       \* staging regions obtained by map_range and not freed

allocVars == <<mock, unit, tt_device, allocator_created, statistics, buffers,
               ret, alloc_calls, expected_allocated, dealloc_calls>>

mapVars == <<mapping, ub, rt, staging_live>>

VARIABLES
    device,            \* the iree_hal_tt_device_t record: "none", "live", "freed"
    device_allocator,  \* device->device_allocator: an allocator id, 0 for null
    device_holds,      \* references the device holds on device_allocator
    session,           \* the tt_metal session of device->tt_device: "null"
                       \* (never opened), "open", "closed"
    close_calls,       \* CloseDevice calls made so far
    allocator_live,    \* each allocator record: "none", "live", "freed"
    ref_count,         \* resource.ref_count of each allocator record
    client_refs        \* references the caller holds on each allocator

devVars == <<device, device_allocator, device_holds, session, close_calls,
             allocator_live, ref_count, client_refs>>

vars == <<t_pc, t_rows, t_cols, t_garbage, t_in, t_mid, t_out,
          mock, unit, tt_device, allocator_created, statistics, buffers,
          ret, alloc_calls, expected_allocated, dealloc_calls, mapping, ub, rt,
          staging_live,
          device, device_allocator, device_holds, session, close_calls,
          allocator_live, ref_count, client_refs>>

\* Allocator records that can exist at once.
MaxAllocators == 2

AllocatorIds == 1..MaxAllocators

\* References the caller takes on one allocator.
MaxClientRefs == 2

\* No device has been created.
DevIdle ==
    /\ device = "none"
    /\ device_allocator = 0
    /\ device_holds = 0
    /\ session = "null"
    /\ close_calls = 0
    /\ allocator_live = [a \in AllocatorIds |-> "none"]
    /\ ref_count = [a \in AllocatorIds |-> 0]
    /\ client_refs = [a \in AllocatorIds |-> 0]

\* ---------------------------------------------------------------------------
\* Tile Layout Conversion (tt_buffer.cc:20-60)
\* ---------------------------------------------------------------------------

\* A float array of n elements, all holding g (a fresh malloc).
FreshArray(n, g) == [i \in 0..(n - 1) |-> g]

\* Element read and write as the generated code performs them; an index
\* outside the array is outside the allocation.
InBounds(a, i) == i \in DOMAIN a
Rd(a, i, g) == IF InBounds(a, i) THEN a[i] ELSE g
Wr(a, i, v) == IF InBounds(a, i) THEN [a EXCEPT ![i] = v] ELSE a

\* A destination of no elements takes no write.  (The test also makes the
\* model checker evaluate each store before the next iteration.)
Len0(a) == DOMAIN a = {}

\* tt_buffer.cc:31  row-major index of element (r, c) of tile (tr, tc)
row_major_idx(tr, tc, r, c, cols) ==
    (tr * TT_TILE_HEIGHT + r) * cols + (tc * TT_TILE_WIDTH + c)

\* tile grid enumerated with the coordinates exchanged
tile_idx_swapped(tr, tc, num_tile_cols) == tc * num_tile_cols + tr

\* tt_buffer.cc:32
tile_idx(tr, tc, num_tile_cols) == tr * num_tile_cols + tc

\* element (r, c) stored column by column inside its tile
tiled_idx_transposed(tr, tc, r, c, num_tile_cols) ==
    tile_idx(tr, tc, num_tile_cols) * TT_TILE_SIZE + c * TT_TILE_HEIGHT + r

\* tt_buffer.cc:33  tiled index of element (r, c) of tile (tr, tc)
tiled_idx(tr, tc, r, c, num_tile_cols) ==
    tile_idx(tr, tc, num_tile_cols) * TT_TILE_SIZE + r * TT_TILE_WIDTH + c

\* pack whose innermost loop advances the source by rows instead of cols
RECURSIVE pack_loop_c_stride(_, _, _, _, _, _, _, _)
pack_loop_c_stride(src, dst, cols, tr, tc, r, c, g) ==
    IF c >= TT_TILE_WIDTH \/ Len0(dst) THEN dst
    ELSE pack_loop_c_stride(src,
             Wr(dst, tiled_idx(tr, tc, r, c, cols \div TT_TILE_WIDTH),
                Rd(src, (tr * TT_TILE_HEIGHT + r) * TT_TILE_WIDTH
                        + (tc * TT_TILE_WIDTH + c), g)),
             cols, tr, tc, r, c + 1, g)

\* pack: the loop nest of tt_buffer.cc:27-38, innermost loop first.
RECURSIVE pack_loop_c(_, _, _, _, _, _, _, _)
pack_loop_c(src, dst, cols, tr, tc, r, c, g) ==
    IF c >= TT_TILE_WIDTH \/ Len0(dst) THEN dst
    ELSE pack_loop_c(src,
             Wr(dst, tiled_idx(tr, tc, r, c, cols \div TT_TILE_WIDTH),
                Rd(src, row_major_idx(tr, tc, r, c, cols), g)),
             cols, tr, tc, r, c + 1, g)

RECURSIVE pack_loop_r(_, _, _, _, _, _, _)
pack_loop_r(src, dst, cols, tr, tc, r, g) ==
    IF r >= TT_TILE_HEIGHT \/ Len0(dst) THEN dst
    ELSE pack_loop_r(src, pack_loop_c(src, dst, cols, tr, tc, r, 0, g),
                     cols, tr, tc, r + 1, g)

RECURSIVE pack_loop_tc(_, _, _, _, _, _)
pack_loop_tc(src, dst, cols, tr, tc, g) ==
    IF tc >= cols \div TT_TILE_WIDTH \/ Len0(dst) THEN dst
    ELSE pack_loop_tc(src, pack_loop_r(src, dst, cols, tr, tc, 0, g),
                      cols, tr, tc + 1, g)

RECURSIVE pack_loop_tr(_, _, _, _, _, _)
pack_loop_tr(src, dst, rows, cols, tr, g) ==
    IF tr >= rows \div TT_TILE_HEIGHT \/ Len0(dst) THEN dst
    ELSE pack_loop_tr(src, pack_loop_tc(src, dst, cols, tr, 0, g),
                      rows, cols, tr + 1, g)

\* iree_hal_tt_pack_to_tiles(src, dst, rows, cols): the new content of dst.
\* g is what a read outside src yields.
pack_to_tiles(src, dst, rows, cols, g) ==
    IF rows <= 0 \/ cols <= 0 THEN dst
    ELSE pack_loop_tr(src, dst, rows, cols, 0, g)

\* unpack with the body of pack (index roles not exchanged)
RECURSIVE unpack_loop_c_as_pack(_, _, _, _, _, _, _, _)
unpack_loop_c_as_pack(src, dst, cols, tr, tc, r, c, g) ==
    IF c >= TT_TILE_WIDTH \/ Len0(dst) THEN dst
    ELSE unpack_loop_c_as_pack(src,
             Wr(dst, tiled_idx(tr, tc, r, c, cols \div TT_TILE_WIDTH),
                Rd(src, row_major_idx(tr, tc, r, c, cols), g)),
             cols, tr, tc, r, c + 1, g)

\* unpack: the loop nest of tt_buffer.cc:48-59.
RECURSIVE unpack_loop_c(_, _, _, _, _, _, _, _)
unpack_loop_c(src, dst, cols, tr, tc, r, c, g) ==
    IF c >= TT_TILE_WIDTH \/ Len0(dst) THEN dst
    ELSE unpack_loop_c(src,
             Wr(dst, row_major_idx(tr, tc, r, c, cols),
                Rd(src, tiled_idx(tr, tc, r, c, cols \div TT_TILE_WIDTH), g)),
             cols, tr, tc, r, c + 1, g)

RECURSIVE unpack_loop_r(_, _, _, _, _, _, _)
unpack_loop_r(src, dst, cols, tr, tc, r, g) ==
    IF r >= TT_TILE_HEIGHT \/ Len0(dst) THEN dst
    ELSE unpack_loop_r(src, unpack_loop_c(src, dst, cols, tr, tc, r, 0, g),
                       cols, tr, tc, r + 1, g)

RECURSIVE unpack_loop_tc(_, _, _, _, _, _)
unpack_loop_tc(src, dst, cols, tr, tc, g) ==
    IF tc >= cols \div TT_TILE_WIDTH \/ Len0(dst) THEN dst
    ELSE unpack_loop_tc(src, unpack_loop_r(src, dst, cols, tr, tc, 0, g),
                        cols, tr, tc + 1, g)

RECURSIVE unpack_loop_tr(_, _, _, _, _, _)
unpack_loop_tr(src, dst, rows, cols, tr, g) ==
    IF tr >= rows \div TT_TILE_HEIGHT \/ Len0(dst) THEN dst
    ELSE unpack_loop_tr(src, unpack_loop_tc(src, dst, cols, tr, 0, g),
                        rows, cols, tr + 1, g)

\* iree_hal_tt_unpack_from_tiles(src, dst, rows, cols): the new content of dst.
unpack_from_tiles(src, dst, rows, cols, g) ==
    IF rows <= 0 \/ cols <= 0 THEN dst
    ELSE unpack_loop_tr(src, dst, rows, cols, 0, g)

\* ---------------------------------------------------------------------------
\* Transcoder harness: the standalone use of pack / unpack made by
\* tile_layout_test.cc and test_buffer_roundtrip.c (three malloc'd arrays,
\* the first filled by the caller).
\* ---------------------------------------------------------------------------

\* Input arrays: the fills of the tests plus arrays with repeated values.
TilePatterns == {"seq", "rc100", "mod1000", "mod7", "const"}

TileFill(p, n, cols) ==
    [i \in 0..(n - 1) |->
        CASE p = "seq" -> i
          [] p = "rc100" -> (i \div cols) * 100 + (i % cols)
          [] p = "mod1000" -> i % 1000
          [] p = "mod7" -> i % 7
          [] OTHER -> 5]

TileDims == {TT_TILE_HEIGHT * k : k \in 1..MaxTileDim}

NoArray == <<>>

TileInit ==
    /\ t_pc = "filled"
    /\ t_rows \in TileDims
    /\ t_cols \in TileDims
    /\ t_garbage \in GarbageVals
    /\ \E p \in TilePatterns : t_in = TileFill(p, t_rows * t_cols, t_cols)
    /\ t_mid = NoArray
    /\ t_out = NoArray

TileIdle ==
    /\ t_pc = "idle"
    /\ t_rows = 0
    /\ t_cols = 0
    /\ t_garbage = 0
    /\ t_in = NoArray
    /\ t_mid = NoArray
    /\ t_out = NoArray

\* pack_to_tiles(src, tiled, rows, cols) into a fresh array
TilePack ==
    /\ t_pc = "filled"
    /\ t_mid' = pack_to_tiles(t_in, FreshArray(t_rows * t_cols, t_garbage),
                              t_rows, t_cols, t_garbage)
    /\ t_pc' = "packed"
    /\ UNCHANGED <<t_rows, t_cols, t_garbage, t_in, t_out>>
    /\ UNCHANGED <<allocVars, mapVars, devVars>>

\* unpack_from_tiles(tiled, dst, rows, cols) of the packed array
TileUnpackPacked ==
    /\ t_pc = "packed"
    /\ t_out' = unpack_from_tiles(t_mid, FreshArray(t_rows * t_cols, t_garbage),
                                  t_rows, t_cols, t_garbage)
    /\ t_pc' = "pack_unpack"
    /\ UNCHANGED <<t_rows, t_cols, t_garbage, t_in, t_mid>>
    /\ UNCHANGED <<allocVars, mapVars, devVars>>

\* unpack_from_tiles applied to the caller's array taken as tile-ordered
TileUnpack ==
    /\ t_pc = "filled"
    /\ t_mid' = unpack_from_tiles(t_in, FreshArray(t_rows * t_cols, t_garbage),
                                  t_rows, t_cols, t_garbage)
    /\ t_pc' = "unpacked"
    /\ UNCHANGED <<t_rows, t_cols, t_garbage, t_in, t_out>>
    /\ UNCHANGED <<allocVars, mapVars, devVars>>

\* pack_to_tiles of the unpacked array
TilePackUnpacked ==
    /\ t_pc = "unpacked"
    /\ t_out' = pack_to_tiles(t_mid, FreshArray(t_rows * t_cols, t_garbage),
                              t_rows, t_cols, t_garbage)
    /\ t_pc' = "unpack_pack"
    /\ UNCHANGED <<t_rows, t_cols, t_garbage, t_in, t_mid>>
    /\ UNCHANGED <<allocVars, mapVars, devVars>>

TileNext ==
    \/ TilePack
    \/ TileUnpackPacked
    \/ TileUnpack
    \/ TilePackUnpacked


\* ---------------------------------------------------------------------------
\* Allocator (tt_allocator.cc, tt_allocator.c)
\* ---------------------------------------------------------------------------

\* iree_device_size_t is a 64-bit unsigned integer.  Every size and counter
\* of this model stays below 2^31, so its arithmetic is written without the
\* reduction modulo 2^64.

StatKeys == {"host_bytes_allocated", "host_bytes_freed",
             "device_bytes_allocated", "device_bytes_freed"}

NoBuffer == [allocation_size |-> 0 - 1]

Slots == 1..MaxBuffers

\* Requested sizes handed to allocate_buffer and query_buffer_compatibility.
RequestSizes == {0, 33, 4096}

\* Sizes of the buffers the mapping tests work on (buffer_test.cc:153,257:
\* 32x32 and 64x64 floats), and the 4000 bytes of the alignment example.
MappedBufferSizes == {4000, 4096, 16384}

\* The smallest multiple of 32 that is >= size.
SmallestMultipleOf32AtLeast(size) ==
    CHOOSE m \in size..(size + 31) : m % 32 = 0

\* tt_allocator.cc:49  std::memset(&allocator->statistics, 0, ...)
ZeroStatistics == [k \in StatKeys |-> 0]

\* the statistics keep what the allocation held before
allocator_create_result_no_memset(malloc_ok, old_statistics) ==
    IF malloc_ok
    THEN [status |-> "OK", created |-> TRUE, statistics |-> old_statistics]
    ELSE [status |-> "RESOURCE_EXHAUSTED", created |-> FALSE,
          statistics |-> old_statistics]

\* iree_hal_tt_allocator_create (tt_allocator.cc:34-53): the new values of
\* allocator_created and statistics, given whether iree_allocator_malloc
\* succeeded.
allocator_create_result(malloc_ok, old_statistics) ==
    IF malloc_ok
    THEN [status |-> "OK", created |-> TRUE, statistics |-> ZeroStatistics]
    ELSE [status |-> "RESOURCE_EXHAUSTED", created |-> FALSE,
          statistics |-> old_statistics]

allocator_create ==
    /\ ~allocator_created
    /\ \E malloc_ok \in BOOLEAN :
        LET res == allocator_create_result(malloc_ok, statistics) IN
        /\ allocator_created' = res.created
        /\ statistics' = res.statistics
        /\ ret' = [op |-> "allocator_create", status |-> res.status]
    /\ UNCHANGED <<mock, unit, tt_device, buffers, alloc_calls, expected_allocated,
                   dealloc_calls>>
    /\ UNCHANGED <<tileVars, mapVars, devVars>>

\* a size that is a multiple of 32 already is moved to the next one
align_up_32_past(size) == (size \div 32 + 1) * 32

\* tt_allocator.cc:118  ((allocation_size + 31) / 32) * 32 on uint64
align_up_32(size) == ((size + 31) \div 32) * 32

\* tt_buffer.cc:118  (int32_t)std::sqrt((double)num_elements)
RECURSIVE isqrt_from(_, _)
isqrt_from(n, r) == IF (r + 1) * (r + 1) > n THEN r ELSE isqrt_from(n, r + 1)
isqrt(n) == isqrt_from(n, 0)

\* the square root is kept as it is, not rounded up to a tile boundary
infer_rows_not_rounded(allocation_size) ==
    LET num_elements == allocation_size \div 4 IN
    IF num_elements = 1024 THEN 32
    ELSE isqrt(num_elements)

\* tt_buffer.cc:112-124  shape inferred from the allocation size
infer_rows(allocation_size) ==
    LET num_elements == allocation_size \div 4 IN
    IF num_elements = 1024 THEN 32
    ELSE ((isqrt(num_elements) + 31) \div 32) * 32

\* tt_buffer.cc:124 (tt_buffer.c has no such field and always transcodes)
infer_uses_tile_layout(rows, cols) == (rows % 32 = 0) /\ (cols % 32 = 0)

\* the session handle is not tested before the backing storage is created
buffer_create_status_no_session_test(struct_malloc_ok, backing_ok) ==
    IF ~struct_malloc_ok THEN "RESOURCE_EXHAUSTED"
    ELSE IF mock THEN (IF backing_ok THEN "OK" ELSE "RESOURCE_EXHAUSTED")
    ELSE IF unit = "c" THEN "UNIMPLEMENTED"
    ELSE IF backing_ok THEN "OK" ELSE "RESOURCE_EXHAUSTED"

\* The status iree_hal_tt_buffer_create reaches (tt_buffer.cc:105-166,
\* tt_buffer.c:165-242), given the outcome of the calls it makes.
buffer_create_status(struct_malloc_ok, backing_ok) ==
    IF ~struct_malloc_ok THEN "RESOURCE_EXHAUSTED"
    ELSE IF mock THEN (IF backing_ok THEN "OK" ELSE "RESOURCE_EXHAUSTED")
    ELSE IF tt_device = "null" THEN "UNAVAILABLE"
    ELSE IF unit = "c" THEN "UNIMPLEMENTED"
    ELSE IF backing_ok THEN "OK" ELSE "RESOURCE_EXHAUSTED"

\* the failure path returns without freeing the buffer record
buffer_create_memory_leak(struct_malloc_ok, backing_ok) ==
    LET called == /\ struct_malloc_ok
                  /\ (mock \/ (tt_device # "null" /\ unit = "cc"))
    IN  [record_mallocs |-> IF struct_malloc_ok THEN 1 ELSE 0,
         record_frees |-> 0,
         backing_calls |-> IF called THEN 1 ELSE 0,
         backing_allocs |-> IF called /\ backing_ok THEN 1 ELSE 0,
         backing_frees |-> 0]

\* The host and device memory iree_hal_tt_buffer_create acquires and gives
\* back before it returns (tt_buffer.cc:105-181, tt_buffer.c:165-254):
\* record_mallocs / record_frees count the buffer record (iree_allocator_malloc
\* at 105-106, iree_allocator_free at 178), backing_calls the calls of
\* std::malloc(allocation_size) (141) or CreateBuffer (157), backing_allocs
\* those that handed out storage, backing_frees the std::free of 175.
buffer_create_memory(struct_malloc_ok, backing_ok) ==
    LET status == buffer_create_status(struct_malloc_ok, backing_ok)
        called == /\ struct_malloc_ok
                  /\ (mock \/ (tt_device # "null" /\ unit = "cc"))
        got == called /\ backing_ok
    IN  [record_mallocs |-> IF struct_malloc_ok THEN 1 ELSE 0,
         record_frees |-> IF struct_malloc_ok /\ status # "OK" THEN 1 ELSE 0,
         backing_calls |-> IF called THEN 1 ELSE 0,
         backing_allocs |-> IF got THEN 1 ELSE 0,
         backing_frees |-> IF mock /\ got /\ status # "OK" THEN 1 ELSE 0]

\* iree_hal_tt_buffer_create: the buffer object it builds.  backing is the
\* content of buffer->host_ptr (mock) or of the device allocation made by
\* CreateBuffer; backing_size is the size handed to std::malloc /
\* InterleavedBufferConfig.size.
buffer_create(allocation_size, g) ==
    [allocation_size |-> allocation_size,
     byte_offset |-> 0,
     byte_length |-> allocation_size,
     rows |-> infer_rows(allocation_size),
     cols |-> infer_rows(allocation_size),
     uses_tile_layout |-> infer_uses_tile_layout(infer_rows(allocation_size),
                                                 infer_rows(allocation_size)),
     backing_size |-> allocation_size,
     backing |-> FreshArray(allocation_size \div 4, g)]

LiveSlots == {slot \in Slots : buffers[slot] # NoBuffer}
FreeSlots == {slot \in Slots : buffers[slot] = NoBuffer}
FirstFreeSlot == CHOOSE slot \in FreeSlots : \A other \in FreeSlots : slot <= other

\* only the host counter is advanced
stats_after_allocate_host_only(stats, allocation_size) ==
    [stats EXCEPT !.host_bytes_allocated = @ + allocation_size]

\* tt_allocator.cc:124-126 / tt_allocator.c:177-180
stats_after_allocate(stats, allocation_size) ==
    IF unit = "c"
    THEN [stats EXCEPT
            !.host_bytes_allocated = @ + allocation_size,
            !.device_bytes_allocated = @ + allocation_size]
    ELSE [stats EXCEPT
            !.device_bytes_allocated = @ + allocation_size]

\* iree_hal_tt_allocator_allocate_buffer (tt_allocator.cc:111-128,
\* tt_allocator.c:155-184) with the iree_hal_tt_buffer_create it calls.
allocate_buffer ==
    /\ allocator_created
    /\ alloc_calls < MaxAllocs
    /\ \E size \in RequestSizes, struct_malloc_ok \in BOOLEAN,
          backing_ok \in BOOLEAN, g \in GarbageVals :
        LET allocation_size == align_up_32(size)
            status == buffer_create_status(struct_malloc_ok, backing_ok)
        IN  /\ alloc_calls' = alloc_calls + 1
            /\ IF status = "OK"
               THEN /\ FreeSlots # {}
                    /\ buffers' = [buffers EXCEPT ![FirstFreeSlot] =
                                      buffer_create(allocation_size, g)]
                    /\ statistics' = stats_after_allocate(statistics, allocation_size)
                    /\ expected_allocated' =
                            expected_allocated + SmallestMultipleOf32AtLeast(size)
                    /\ ret' = [op |-> "allocate_buffer", status |-> "OK",
                               size |-> size, out_buffer |-> FirstFreeSlot,
                               memory |-> buffer_create_memory(struct_malloc_ok,
                                                               backing_ok)]
               ELSE /\ UNCHANGED <<buffers, statistics, expected_allocated>>
                    /\ ret' = [op |-> "allocate_buffer", status |-> status,
                               size |-> size, out_buffer |-> 0,
                               memory |-> buffer_create_memory(struct_malloc_ok,
                                                               backing_ok)]
    /\ UNCHANGED <<mock, unit, tt_device, allocator_created, dealloc_calls>>
    /\ UNCHANGED <<tileVars, mapVars, devVars>>

\* the bytes are taken off the allocated counter instead
stats_after_deallocate_uncounted(stats, size) ==
    [stats EXCEPT !.device_bytes_allocated = @ - size]

\* tt_allocator.cc:133 / tt_allocator.c:193-195
stats_after_deallocate(stats, size) ==
    IF unit = "c"
    THEN [stats EXCEPT
            !.host_bytes_freed = @ + size,
            !.device_bytes_freed = @ + size]
    ELSE [stats EXCEPT !.device_bytes_freed = @ + size]

\* iree_hal_tt_allocator_deallocate_buffer (tt_allocator.cc:130-134,
\* tt_allocator.c:186-198) called with a buffer that exists.
deallocate_buffer ==
    /\ allocator_created
    /\ dealloc_calls < MaxDeallocs
    /\ \E slot \in LiveSlots :
        /\ statistics' = stats_after_deallocate(statistics,
                                                buffers[slot].allocation_size)
        /\ ret' = [op |-> "deallocate_buffer", buffer |-> slot]
    /\ dealloc_calls' = dealloc_calls + 1
    /\ UNCHANGED <<mock, unit, tt_device, allocator_created, buffers, alloc_calls,
                   expected_allocated>>
    /\ UNCHANGED <<tileVars, mapVars, devVars>>

\* iree_hal_tt_allocator_query_statistics (tt_allocator.cc:73-77)
query_statistics ==
    /\ allocator_created
    /\ ret' = [op |-> "query_statistics", out |-> statistics]
    /\ UNCHANGED <<mock, unit, tt_device, allocator_created, statistics,
                   buffers, alloc_calls, expected_allocated,
                   dealloc_calls>>
    /\ UNCHANGED <<tileVars, mapVars, devVars>>

\* The heap literal of tt_allocator.cc:86-92 / tt_allocator.c:112-120.
\* max_allocation_size (28 * 1024 * 1024 * 1024 bytes) is held in KiB.
memory_heap ==
    [type |-> "DEVICE_LOCAL",
     allowed_usage |->
        IF unit = "c"
        THEN {"TRANSFER", "DISPATCH_STORAGE", "DISPATCH_INDIRECT_PARAMETERS",
              "DISPATCH_UNIFORM_READ"}
        ELSE {"TRANSFER", "DISPATCH_STORAGE"},
     max_allocation_size_kib |-> 28 * 1024 * 1024,
     min_alignment |-> 32]

\* iree_hal_tt_allocator_query_memory_heaps (tt_allocator.cc:79-95,
\* tt_allocator.c:105-130) called with an out_count to store to.  heaps is
\* the sequence of entries the call wrote to the caller's array (heaps_given:
\* the caller passed an array), out_count what it stored through out_count.
query_memory_heaps ==
    /\ allocator_created
    /\ \E capacity \in 0..2, heaps_given \in BOOLEAN :
        ret' = [op |-> "query_memory_heaps", status |-> "OK",
                capacity |-> capacity,
                heaps_given |-> heaps_given,
                out_count |-> 1,
                heaps |-> IF capacity >= 1 /\ heaps_given
                          THEN <<memory_heap>> ELSE <<>>]
    /\ UNCHANGED <<mock, unit, tt_device, allocator_created, statistics,
                   buffers, alloc_calls, expected_allocated,
                   dealloc_calls>>
    /\ UNCHANGED <<tileVars, mapVars, devVars>>

\* iree_hal_tt_allocator_query_buffer_compatibility (tt_allocator.cc:97-109,
\* tt_allocator.c:132-152)
query_buffer_compatibility ==
    /\ allocator_created
    /\ \E type \in {"DEVICE_LOCAL", "HOST_LOCAL"}, size \in RequestSizes :
        ret' = [op |-> "query_buffer_compatibility",
                type |-> type,
                size |-> size,
                out_size |-> IF size % 32 # 0
                             THEN ((size + 31) \div 32) * 32
                             ELSE size,
                compatibility |->
                    IF type # "DEVICE_LOCAL" THEN {}
                    ELSE IF unit = "c" THEN {"ALLOCATABLE", "IMPORTABLE"}
                    ELSE {"ALLOCATABLE"}]
    /\ UNCHANGED <<mock, unit, tt_device, allocator_created, statistics,
                   buffers, alloc_calls, expected_allocated,
                   dealloc_calls>>
    /\ UNCHANGED <<tileVars, mapVars, devVars>>

\* iree_hal_tt_allocator_trim (tt_allocator.cc:69-71)
trim ==
    /\ allocator_created
    /\ ret' = [op |-> "trim", status |-> "OK"]
    /\ UNCHANGED <<mock, unit, tt_device, allocator_created, statistics,
                   buffers, alloc_calls, expected_allocated,
                   dealloc_calls>>
    /\ UNCHANGED <<tileVars, mapVars, devVars>>

\* iree_hal_tt_allocator_import_buffer (tt_allocator.cc:136-141)
import_buffer ==
    /\ allocator_created
    /\ ret' = [op |-> "import_buffer", status |-> "UNIMPLEMENTED"]
    /\ UNCHANGED <<mock, unit, tt_device, allocator_created, statistics,
                   buffers, alloc_calls, expected_allocated,
                   dealloc_calls>>
    /\ UNCHANGED <<tileVars, mapVars, devVars>>

\* iree_hal_tt_allocator_export_buffer (tt_allocator.cc:143-147)
export_buffer ==
    /\ allocator_created
    /\ LiveSlots # {}
    /\ ret' = [op |-> "export_buffer", status |-> "UNIMPLEMENTED"]
    /\ UNCHANGED <<mock, unit, tt_device, allocator_created, statistics,
                   buffers, alloc_calls, expected_allocated,
                   dealloc_calls>>
    /\ UNCHANGED <<tileVars, mapVars, devVars>>

\* ---------------------------------------------------------------------------
\* Buffer mapping (tt_buffer.cc:189-305, tt_buffer.c:264-368)
\* ---------------------------------------------------------------------------

NoMapping == [buffer |-> 0]

RtNone == [pc |-> "none", buffer |-> 0, fill |-> "none"]

AccessModes == {{"READ"}, {"WRITE"}, {"READ", "WRITE"}}

\* Byte ranges <<offset, length>> handed to map_range for a buffer of the
\* given size: the whole buffer, and its upper half.
MapRanges(size) == {<<0, size>>, <<size \div 2, size \div 2>>}

\* What the caller stores through a WRITE mapping.
FillPatterns == {"seq", "mod7"}

\* std::memset(staging, 0, local_byte_length)
ZeroArray(n) == [i \in 0..(n - 1) |-> 0]

\* The transcoder touches elements 0 .. rows*cols-1 of both of its arrays.
transcode_in_bounds(buf, n_src, n_dst) ==
    \/ buf.rows <= 0
    \/ buf.cols <= 0
    \/ /\ buf.rows * buf.cols <= n_src
       /\ buf.rows * buf.cols <= n_dst

\* tt_buffer.cc:236-249  the staging region after a device read that went
\* through (tiled_data holds the whole backing allocation).
map_read_staging(buf, byte_length, g) ==
    IF buf.uses_tile_layout
    THEN unpack_from_tiles(buf.backing, FreshArray(byte_length \div 4, g),
                           buf.rows, buf.cols, g)
    ELSE [i \in 0..(byte_length \div 4 - 1) |-> Rd(buf.backing, i, g)]

\* a failed device read leaves the staging region as malloc returned it
map_staging_cc_no_zero(buf, access, byte_length, read_ok, g) ==
    IF "READ" \in access
    THEN IF read_ok THEN map_read_staging(buf, byte_length, g)
         ELSE FreshArray(byte_length \div 4, g)
    ELSE ZeroArray(byte_length \div 4)

\* tt_buffer.cc:219-256 (hardware build of tt_buffer.cc): the staging region
\* handed to the caller.
map_staging_cc(buf, access, byte_length, read_ok, g) ==
    IF "READ" \in access
    THEN IF read_ok THEN map_read_staging(buf, byte_length, g)
         ELSE ZeroArray(byte_length \div 4)
    ELSE ZeroArray(byte_length \div 4)

\* tt_buffer.c:305-319 (hardware build of tt_buffer.c)
map_staging_c(access, byte_length, g) ==
    IF "READ" \in access THEN ZeroArray(byte_length \div 4)
    ELSE FreshArray(byte_length \div 4, g)

\* The status of map_range (tt_buffer.cc:219-234, tt_buffer.c:305-310).
map_status(access, staging_malloc_ok, tiled_malloc_ok) ==
    IF mock THEN "OK"
    ELSE IF ~staging_malloc_ok THEN "RESOURCE_EXHAUSTED"
    ELSE IF unit = "cc" /\ "READ" \in access /\ ~tiled_malloc_ok
         THEN "RESOURCE_EXHAUSTED"
    ELSE "OK"

\* Does this map_range leave its allocations?
map_out_of_bounds(buf, access, byte_length, read_ok) ==
    /\ ~mock
    /\ unit = "cc"
    /\ "READ" \in access
    /\ read_ok
    /\ IF buf.uses_tile_layout
       THEN ~transcode_in_bounds(buf, buf.allocation_size \div 4,
                                 byte_length \div 4)
       ELSE FALSE

\* the staging region is kept when the read-back buffer cannot be allocated
map_memory_keeps_staging(access, staging_malloc_ok, tiled_malloc_ok) ==
    LET reads == unit = "cc" /\ "READ" \in access
    IN  IF mock
        THEN [staging_mallocs |-> 0, staging_frees |-> 0,
              tiled_mallocs |-> 0, tiled_frees |-> 0]
        ELSE [staging_mallocs |-> IF staging_malloc_ok THEN 1 ELSE 0,
              staging_frees |-> 0,
              tiled_mallocs |-> IF staging_malloc_ok /\ reads /\ tiled_malloc_ok
                                THEN 1 ELSE 0,
              tiled_frees |-> IF staging_malloc_ok /\ reads /\ tiled_malloc_ok
                              THEN 1 ELSE 0]

\* The host memory map_range obtains and gives back (tt_buffer.cc:219-251,
\* tt_buffer.c:305-310): staging is the region handed to the caller, tiled
\* the temporary read-back buffer.
map_memory(access, staging_malloc_ok, tiled_malloc_ok) ==
    LET reads == unit = "cc" /\ "READ" \in access
        status == map_status(access, staging_malloc_ok, tiled_malloc_ok)
    IN  IF mock
        THEN [staging_mallocs |-> 0, staging_frees |-> 0,
              tiled_mallocs |-> 0, tiled_frees |-> 0]
        ELSE [staging_mallocs |-> IF staging_malloc_ok THEN 1 ELSE 0,
              staging_frees |-> IF staging_malloc_ok /\ status # "OK" THEN 1 ELSE 0,
              tiled_mallocs |-> IF staging_malloc_ok /\ reads /\ tiled_malloc_ok
                                THEN 1 ELSE 0,
              tiled_frees |-> IF staging_malloc_ok /\ reads /\ tiled_malloc_ok
                              THEN 1 ELSE 0]

\* The EnqueueReadBuffer of map_range (tt_buffer.cc:238-239): "none" when the
\* call does not reach it, else how it ended.
map_hw_read(access, staging_malloc_ok, tiled_malloc_ok, read_ok) ==
    IF /\ ~mock
       /\ unit = "cc"
       /\ "READ" \in access
       /\ staging_malloc_ok
       /\ tiled_malloc_ok
    THEN (IF read_ok THEN "ok" ELSE "failed")
    ELSE "none"

\* The observer after a map_range.
rt_after_map(slot, access, full, status, read_ok) ==
    IF status # "OK" THEN RtNone
    ELSE IF access = {"WRITE"} /\ full
         THEN [pc |-> "w_mapped", buffer |-> slot, fill |-> "none"]
    ELSE IF /\ access = {"READ"}
            /\ full
            /\ rt.pc = "written"
            /\ rt.buffer = slot
            /\ (mock \/ read_ok)
         THEN [rt EXCEPT !.pc = "r_mapped"]
    ELSE RtNone

\* iree_hal_tt_buffer_map_range (tt_buffer.cc:204-261, tt_buffer.c:284-324)
\* on a buffer that exists and is not mapped, with a range inside it.
map_range ==
    /\ ~ub
    /\ mapping = NoMapping
    /\ \E slot \in LiveSlots, access \in AccessModes,
          staging_malloc_ok \in BOOLEAN, tiled_malloc_ok \in BOOLEAN,
          read_ok \in BOOLEAN, g \in GarbageVals :
        \E range \in MapRanges(buffers[slot].allocation_size) :
        LET buf == buffers[slot]
            status == map_status(access, staging_malloc_ok, tiled_malloc_ok)
        IN  /\ ret' = [op |-> "map_range", status |-> status,
                       access |-> access,
                       hw_read |-> map_hw_read(access, staging_malloc_ok,
                                               tiled_malloc_ok, read_ok),
                       memory |-> map_memory(access, staging_malloc_ok,
                                             tiled_malloc_ok)]
            /\ staging_live' = staging_live
                    + map_memory(access, staging_malloc_ok,
                                 tiled_malloc_ok).staging_mallocs
                    - map_memory(access, staging_malloc_ok,
                                 tiled_malloc_ok).staging_frees
            /\ rt' = rt_after_map(slot, access, range[1] = 0 /\ range[2] = buf.allocation_size,
                                  status, read_ok)
            /\ IF status = "OK"
               THEN /\ mapping' =
                        [buffer |-> slot, access |-> access,
                         byte_offset |-> range[1], byte_length |-> range[2],
                         staging |->
                            IF mock THEN NoArray
                            ELSE IF unit = "cc"
                                 THEN map_staging_cc(buf, access, range[2], read_ok, g)
                                 ELSE map_staging_c(access, range[2], g)]
                    /\ ub' = (ub \/ map_out_of_bounds(buf, access, range[2], read_ok))
               ELSE UNCHANGED <<mapping, ub>>
    /\ UNCHANGED <<mock, unit, tt_device, allocator_created, statistics,
                   buffers, alloc_calls, expected_allocated,
                   dealloc_calls>>
    /\ UNCHANGED <<tileVars, devVars>>

\* The elements the caller sees through mapping->contents.
mapped_view ==
    IF mock
    THEN [i \in 0..(mapping.byte_length \div 4 - 1) |->
            buffers[mapping.buffer].backing[mapping.byte_offset \div 4 + i]]
    ELSE mapping.staging

\* The caller fills the whole mapped range (buffer_test.cc:177-180).  In the
\* mock build the mapping points into host_ptr itself (tt_buffer.cc:216).
fill_mapping ==
    /\ ~ub
    /\ mapping # NoMapping
    /\ "WRITE" \in mapping.access
    /\ \E p \in FillPatterns :
        LET buf == buffers[mapping.buffer]
            n == mapping.byte_length \div 4
            data == TileFill(p, n, buf.cols)
            first == mapping.byte_offset \div 4
        IN  /\ IF mock
               THEN /\ buffers' = [buffers EXCEPT ![mapping.buffer].backing =
                        [i \in DOMAIN buf.backing |->
                            IF i >= first /\ i < first + n
                            THEN data[i - first] ELSE buf.backing[i]]]
                    /\ UNCHANGED mapping
               ELSE /\ mapping' = [mapping EXCEPT !.staging = data]
                    /\ UNCHANGED buffers
            /\ rt' = IF rt.pc \in {"w_mapped", "filled"} /\ rt.buffer = mapping.buffer
                     THEN [rt EXCEPT !.pc = "filled", !.fill = p]
                     ELSE RtNone
    /\ ret' = [op |-> "fill_mapping"]
    /\ UNCHANGED <<mock, unit, tt_device, allocator_created, statistics,
                   alloc_calls, expected_allocated, dealloc_calls, ub,
                   staging_live>>
    /\ UNCHANGED <<tileVars, devVars>>

\* the write-back sends the staging region as it is
unmap_write_back_verbatim(buf, staging, tiled_malloc_ok, write_ok, g) ==
    IF tiled_malloc_ok /\ write_ok
    THEN [i \in DOMAIN buf.backing |-> Rd(staging, i, g)]
    ELSE buf.backing

\* tt_buffer.cc:280-294  the content of the backing allocation after the
\* write-back of unmap_range (hardware build of tt_buffer.cc).
unmap_write_back(buf, staging, tiled_malloc_ok, write_ok, g) ==
    IF buf.uses_tile_layout
    THEN IF tiled_malloc_ok /\ write_ok
         THEN pack_to_tiles(staging, FreshArray(buf.allocation_size \div 4, g),
                            buf.rows, buf.cols, g)
         ELSE buf.backing
    ELSE IF write_ok
         THEN [i \in DOMAIN buf.backing |-> Rd(staging, i, g)]
         ELSE buf.backing

\* Does this unmap_range leave its allocations?
unmap_out_of_bounds(buf, byte_length, tiled_malloc_ok) ==
    /\ ~mock
    /\ IF unit = "cc"
       THEN IF buf.uses_tile_layout
            THEN /\ tiled_malloc_ok
                 /\ ~transcode_in_bounds(buf, byte_length \div 4,
                                         buf.allocation_size \div 4)
            ELSE byte_length < buf.allocation_size
       ELSE /\ tiled_malloc_ok
            /\ ~transcode_in_bounds(buf, byte_length \div 4, byte_length \div 4)

\* The EnqueueWriteBuffer of unmap_range (tt_buffer.cc:286-291): "none" when
\* the call does not reach it, else how it ended.
unmap_hw_write(buf, tiled_malloc_ok, write_ok) ==
    IF /\ ~mock
       /\ unit = "cc"
       /\ (buf.uses_tile_layout => tiled_malloc_ok)
    THEN (IF write_ok THEN "ok" ELSE "failed")
    ELSE "none"

\* the staging region is given back only after a write that went through
unmap_memory_no_free(buf, tiled_malloc_ok, write_ok) ==
    IF mock
    THEN [staging_frees |-> 0, tiled_mallocs |-> 0, tiled_frees |-> 0]
    ELSE [staging_frees |-> IF unmap_hw_write(buf, tiled_malloc_ok, write_ok) = "ok"
                            THEN 1 ELSE 0,
          tiled_mallocs |-> IF buf.uses_tile_layout /\ tiled_malloc_ok
                            THEN 1 ELSE 0,
          tiled_frees |-> IF buf.uses_tile_layout /\ tiled_malloc_ok /\ write_ok
                          THEN 1 ELSE 0]

\* The host memory unmap_range obtains and gives back (tt_buffer.cc:279-299,
\* tt_buffer.c:341-362): tiled is the temporary tile buffer, which the throw
\* of a failed write skips the std::free of.
unmap_memory(buf, tiled_malloc_ok, write_ok) ==
    IF mock
    THEN [staging_frees |-> 0, tiled_mallocs |-> 0, tiled_frees |-> 0]
    ELSE IF unit = "cc"
    THEN [staging_frees |-> 1,
          tiled_mallocs |-> IF buf.uses_tile_layout /\ tiled_malloc_ok
                            THEN 1 ELSE 0,
          tiled_frees |-> IF buf.uses_tile_layout /\ tiled_malloc_ok /\ write_ok
                          THEN 1 ELSE 0]
    ELSE [staging_frees |-> 1,
          tiled_mallocs |-> IF tiled_malloc_ok THEN 1 ELSE 0,
          tiled_frees |-> IF tiled_malloc_ok THEN 1 ELSE 0]

\* The status of unmap_range (tt_buffer.cc:304, tt_buffer.c:342-348,367).
unmap_status(tiled_malloc_ok) ==
    IF ~mock /\ unit = "c" /\ ~tiled_malloc_ok THEN "RESOURCE_EXHAUSTED"
    ELSE "OK"

\* iree_hal_tt_buffer_unmap_range (tt_buffer.cc:263-305, tt_buffer.c:326-368)
unmap_range ==
    /\ ~ub
    /\ mapping # NoMapping
    /\ \E tiled_malloc_ok \in BOOLEAN, write_ok \in BOOLEAN, g \in GarbageVals :
        LET buf == buffers[mapping.buffer]
            status == unmap_status(tiled_malloc_ok)
        IN  /\ ret' = [op |-> "unmap_range", status |-> status,
                       access |-> mapping.access,
                       hw_write |-> unmap_hw_write(buf, tiled_malloc_ok, write_ok),
                       memory |-> unmap_memory(buf, tiled_malloc_ok, write_ok)]
            /\ staging_live' = staging_live
                    - unmap_memory(buf, tiled_malloc_ok, write_ok).staging_frees
            /\ buffers' =
                IF ~mock /\ unit = "cc"
                THEN [buffers EXCEPT ![mapping.buffer].backing =
                        unmap_write_back(buf, mapping.staging, tiled_malloc_ok,
                                         write_ok, g)]
                ELSE buffers
            /\ ub' = (ub \/ unmap_out_of_bounds(buf, mapping.byte_length,
                                                tiled_malloc_ok))
            /\ rt' = IF /\ rt.pc = "filled"
                        /\ rt.buffer = mapping.buffer
                        /\ status = "OK"
                        /\ (mock \/ (tiled_malloc_ok /\ write_ok))
                     THEN [rt EXCEPT !.pc = "written"]
                     ELSE RtNone
    /\ mapping' = NoMapping
    /\ UNCHANGED <<mock, unit, tt_device, allocator_created, statistics,
                   alloc_calls, expected_allocated, dealloc_calls>>
    /\ UNCHANGED <<tileVars, devVars>>

\* The memory iree_hal_tt_buffer_destroy gives back (tt_buffer.cc:195-200,
\* tt_buffer.c:270-279): host_ptr in the mock build, the hardware handle by
\* the destructor of the record in tt_buffer.cc; the hardware build of
\* tt_buffer.c leaves the handle (a TODO).
buffer_destroy_memory(buf) ==
    [record_frees |-> 1,
     backing_frees |-> IF mock \/ unit = "cc" THEN 1 ELSE 0]

\* iree_hal_tt_buffer_destroy (tt_buffer.cc:189-202), reached when the last
\* reference to a buffer that is not mapped is released.
buffer_destroy ==
    /\ ~ub
    /\ \E slot \in LiveSlots :
        /\ mapping.buffer # slot
        /\ buffers' = [buffers EXCEPT ![slot] = NoBuffer]
        /\ rt' = IF rt.buffer = slot THEN RtNone ELSE rt
        /\ ret' = [op |-> "buffer_destroy", buffer |-> slot,
                   memory |-> buffer_destroy_memory(buffers[slot])]
    /\ UNCHANGED <<mock, unit, tt_device, allocator_created, statistics,
                   alloc_calls, expected_allocated, dealloc_calls, mapping, ub,
                   staging_live>>
    /\ UNCHANGED <<tileVars, devVars>>

\* ---------------------------------------------------------------------------
\* The memory layer: a device has been opened (tt_device.cc:59-119) and its
\* allocator is about to be created (tt_device.cc:121-125), or
\* iree_hal_tt_allocator_create is about to be called on a device record
\* without a session (tt_device.cc:45-47 answers nullptr for it).
\* ---------------------------------------------------------------------------

AllocInit ==
    /\ mock \in BOOLEAN
    /\ unit \in {"c", "cc"}
    /\ tt_device \in IF mock THEN {"null"} ELSE {"open", "null"}
    /\ allocator_created = FALSE
    /\ \E g \in GarbageVals : statistics = [k \in StatKeys |-> g]
    /\ buffers = [slot \in Slots |-> NoBuffer]
    /\ ret = [op |-> "none"]
    /\ alloc_calls = 0
    /\ expected_allocated = 0
    /\ dealloc_calls = 0
    /\ mapping = NoMapping
    /\ ub = FALSE
    /\ rt = RtNone
    /\ staging_live = 0
    /\ DevIdle

AllocIdle ==
    /\ mock = TRUE
    /\ unit = "cc"
    /\ tt_device = "null"
    /\ allocator_created = FALSE
    /\ statistics = ZeroStatistics
    /\ buffers = [slot \in Slots |-> NoBuffer]
    /\ ret = [op |-> "none"]
    /\ alloc_calls = 0
    /\ expected_allocated = 0
    /\ dealloc_calls = 0
    /\ mapping = NoMapping
    /\ ub = FALSE
    /\ rt = RtNone
    /\ staging_live = 0
    /\ DevIdle

Init == AllocInit /\ TileIdle

\* The allocator interface.
Next ==
    \/ allocator_create
    \/ allocate_buffer
    \/ deallocate_buffer
    \/ query_statistics
    \/ query_memory_heaps
    \/ query_buffer_compatibility
    \/ trim
    \/ import_buffer
    \/ export_buffer
    \/ buffer_destroy

Spec == Init /\ [][Next]_vars

\* The buffer interface, as buffer_test.cc and test_buffer_roundtrip.c drive
\* it: the allocator exists and one allocate_buffer call has returned a
\* buffer (buffer_test.cc:161-164).
MapInit ==
    /\ mock \in BOOLEAN
    /\ unit \in {"c", "cc"}
    /\ tt_device = IF mock THEN "null" ELSE "open"
    /\ allocator_created = TRUE
    /\ buffer_create_status(TRUE, TRUE) = "OK"
    /\ \E size \in MappedBufferSizes, g \in GarbageVals :
        /\ statistics = stats_after_allocate(ZeroStatistics, align_up_32(size))
        /\ buffers = [slot \in Slots |->
                        IF slot = 1 THEN buffer_create(align_up_32(size), g)
                        ELSE NoBuffer]
        /\ expected_allocated = SmallestMultipleOf32AtLeast(size)
        /\ ret = [op |-> "allocate_buffer", status |-> "OK", size |-> size,
                  out_buffer |-> 1,
                  memory |-> buffer_create_memory(TRUE, TRUE)]
    /\ alloc_calls = 1
    /\ dealloc_calls = 0
    /\ mapping = NoMapping
    /\ ub = FALSE
    /\ rt = RtNone
    /\ staging_live = 0
    /\ DevIdle

MapNext ==
    \/ map_range
    \/ fill_mapping
    \/ unmap_range
    \/ buffer_destroy

InitMap == MapInit /\ TileIdle

SpecMap == InitMap /\ [][MapNext]_vars

\* The allocator and the buffer interface side by side: one buffer of
\* 4096 bytes has been allocated (buffer_test.cc:161-164) and is mapped,
\* unmapped, deallocated and destroyed.
FrameInit ==
    /\ mock \in BOOLEAN
    /\ unit \in {"c", "cc"}
    /\ tt_device = IF mock THEN "null" ELSE "open"
    /\ allocator_created = TRUE
    /\ buffer_create_status(TRUE, TRUE) = "OK"
    /\ \E g \in GarbageVals :
        /\ statistics = stats_after_allocate(ZeroStatistics, align_up_32(4096))
        /\ buffers = [slot \in Slots |->
                        IF slot = 1 THEN buffer_create(align_up_32(4096), g)
                        ELSE NoBuffer]
    /\ expected_allocated = SmallestMultipleOf32AtLeast(4096)
    /\ ret = [op |-> "allocate_buffer", status |-> "OK", size |-> 4096,
              out_buffer |-> 1,
              memory |-> buffer_create_memory(TRUE, TRUE)]
    /\ alloc_calls = 1
    /\ dealloc_calls = 0
    /\ mapping = NoMapping
    /\ ub = FALSE
    /\ rt = RtNone
    /\ staging_live = 0
    /\ DevIdle

NextFrame ==
    \/ deallocate_buffer
    \/ map_range
    \/ unmap_range
    \/ buffer_destroy

InitFrame == FrameInit /\ TileIdle

SpecFrame == InitFrame /\ [][NextFrame]_vars

InitTile == TileInit /\ AllocIdle

SpecTile == InitTile /\ [][TileNext]_vars

\* ---------------------------------------------------------------------------
\* Sizes beyond 2^31
\*
\* iree_device_size_t is uint64_t.  A 64-bit value is held as five limbs of
\* 15 bits, least significant first (the fifth limb has 4 bits):
\*   value = l[1] + l[2]*2^15 + l[3]*2^30 + l[4]*2^45 + l[5]*2^60
\* and the operators below are +, /, *, % and <= of uint64_t on that form;
\* a carry out of the fifth limb is dropped, as the machine drops it.
\* ---------------------------------------------------------------------------

LimbBase == 32768
LimbCount == 5
TopLimbBase == 16

LimbBaseAt(i) == IF i = LimbCount THEN TopLimbBase ELSE LimbBase

\* the uint64_t with the value n, 0 <= n < 2^31
u64(n) == <<n % LimbBase, (n \div LimbBase) % LimbBase,
            n \div (LimbBase * LimbBase), 0, 0>>

\* g * 2^30 + b, the size of g GiB and b bytes (g, b < 2^15)
u64_gib(g, b) == <<b, 0, g, 0, 0>>

RECURSIVE u64_add_from(_, _, _, _)
u64_add_from(x, y, i, carry) ==
    IF i > LimbCount THEN <<>>
    ELSE LET t == x[i] + y[i] + carry
         IN  <<t % LimbBaseAt(i)>> \o u64_add_from(x, y, i + 1, t \div LimbBaseAt(i))

\* x + y on uint64_t
u64_add(x, y) == u64_add_from(x, y, 1, 0)

RECURSIVE u64_mul_from(_, _, _, _)
u64_mul_from(x, m, i, carry) ==
    IF i > LimbCount THEN <<>>
    ELSE LET t == x[i] * m + carry
         IN  <<t % LimbBaseAt(i)>> \o u64_mul_from(x, m, i + 1, t \div LimbBaseAt(i))

\* x * m on uint64_t, 0 <= m <= 2^15
u64_mul(x, m) == u64_mul_from(x, m, 1, 0)

\* x * m on uint64_t, 0 <= m < 2^30
u64_mul_wide(x, m) ==
    u64_add(u64_mul(x, m % LimbBase),
            u64_mul(u64_mul(x, m \div LimbBase), LimbBase))

RECURSIVE u64_div_from(_, _, _, _)
u64_div_from(x, d, i, rem) ==
    IF i = 0 THEN <<>>
    ELSE LET cur == rem * LimbBase + x[i]
         IN  u64_div_from(x, d, i - 1, cur % d) \o <<cur \div d>>

\* x / d on uint64_t, 0 < d <= 2^15
u64_div(x, d) == u64_div_from(x, d, LimbCount, 0)

RECURSIVE u64_mod_from(_, _, _, _)
u64_mod_from(x, d, i, rem) ==
    IF i = 0 THEN rem
    ELSE u64_mod_from(x, d, i - 1, (rem * LimbBase + x[i]) % d)

\* x % d on uint64_t, 0 < d <= 2^15
u64_mod(x, d) == u64_mod_from(x, d, LimbCount, 0)

RECURSIVE u64_le_from(_, _, _)
u64_le_from(x, y, i) ==
    IF i = 0 THEN TRUE
    ELSE IF x[i] # y[i] THEN x[i] < y[i]
    ELSE u64_le_from(x, y, i - 1)

\* x <= y on uint64_t
u64_le(x, y) == u64_le_from(x, y, LimbCount)

\* r * r for 0 <= r < 2^20, as a uint64_t
u64_square(r) ==
    LET a == r \div LimbBase
        b == r % LimbBase
    IN  u64_add(u64_add(u64(b * b), u64_mul(u64(2 * a * b), LimbBase)),
                u64_mul(u64_mul(u64(a * a), LimbBase), LimbBase))

\* the r in lo .. hi-1 with r*r <= n < (r+1)*(r+1), given lo*lo <= n < hi*hi
RECURSIVE u64_isqrt_between(_, _, _)
u64_isqrt_between(n, lo, hi) ==
    IF hi - lo <= 1 THEN lo
    ELSE LET mid == (lo + hi) \div 2
         IN  IF u64_le(u64_square(mid), n)
             THEN u64_isqrt_between(n, mid, hi)
             ELSE u64_isqrt_between(n, lo, mid)

\* (int32_t)std::sqrt((double)n) for n < 2^40: the double is exact and the
\* conversion truncates.
u64_isqrt(n) == u64_isqrt_between(n, 0, 1048576)

\* ---------------------------------------------------------------------------
\* The allocator on sizes beyond 2^31 (tt_allocator.cc, tt_buffer.cc with
\* 64-bit operands).  The content of a backing store of such a size is not
\* held; everything else the handlers compute is.
\* ---------------------------------------------------------------------------

\* 2^64 - 1, the largest iree_device_size_t.
u64_max == <<LimbBase - 1, LimbBase - 1, LimbBase - 1, LimbBase - 1,
             TopLimbBase - 1>>

\* Requested sizes around the heap's max_allocation_size of 28 GiB, and the
\* largest size the parameter can carry.
LargeRequestSizes ==
    {u64_gib(8, 33), u64_gib(28, 0), u64_gib(28, 1), u64_gib(29, 0), u64_max}

\* tt_allocator.cc:118  ((allocation_size + 31) / 32) * 32 on uint64_t
align_up_32_u64(size) == u64_mul(u64_div(u64_add(size, u64(31)), 32), 32)

\* tt_buffer.cc:112-122 on a 64-bit allocation_size; rows and cols are int32_t
infer_rows_u64(allocation_size) ==
    LET num_elements == u64_div(allocation_size, 4) IN
    IF num_elements = u64(1024) THEN 32
    ELSE ((u64_isqrt(num_elements) + 31) \div 32) * 32

\* tt_buffer.cc:34,36 and 54,56  the value of the largest src_idx/dst_idx the
\* loops of the transcoder compute for a shape, before it is stored in an
\* int32_t: (rows - 1) * cols + (cols - 1).
last_transcode_idx_u64(rows, cols) ==
    IF rows <= 0 \/ cols <= 0 THEN u64(0)
    ELSE u64_add(u64_mul_wide(u64(rows - 1), cols), u64(cols - 1))

\* iree_hal_tt_buffer_create (tt_buffer.cc:93-183): the buffer object
buffer_create_u64(allocation_size) ==
    [allocation_size |-> allocation_size,
     byte_offset |-> u64(0),
     byte_length |-> allocation_size,
     rows |-> infer_rows_u64(allocation_size),
     cols |-> infer_rows_u64(allocation_size),
     uses_tile_layout |-> infer_uses_tile_layout(infer_rows_u64(allocation_size),
                                                 infer_rows_u64(allocation_size)),
     backing_size |-> allocation_size,
     backing |-> NoArray]

\* tt_allocator.cc:124-126 / tt_allocator.c:177-180
stats_after_allocate_u64(stats, allocation_size) ==
    IF unit = "c"
    THEN [stats EXCEPT
            !.host_bytes_allocated = u64_add(@, allocation_size),
            !.device_bytes_allocated = u64_add(@, allocation_size)]
    ELSE [stats EXCEPT
            !.device_bytes_allocated = u64_add(@, allocation_size)]

\* iree_hal_tt_allocator_allocate_buffer (tt_allocator.cc:111-128,
\* tt_allocator.c:155-184) with the iree_hal_tt_buffer_create it calls.
allocate_buffer_u64 ==
    /\ allocator_created
    /\ alloc_calls < MaxAllocs
    /\ \E size \in LargeRequestSizes, struct_malloc_ok \in BOOLEAN,
          backing_ok \in BOOLEAN :
        LET allocation_size == align_up_32_u64(size)
            status == buffer_create_status(struct_malloc_ok, backing_ok)
        IN  /\ alloc_calls' = alloc_calls + 1
            /\ IF status = "OK"
               THEN /\ FreeSlots # {}
                    /\ buffers' = [buffers EXCEPT ![FirstFreeSlot] =
                                      buffer_create_u64(allocation_size)]
                    /\ statistics' = stats_after_allocate_u64(statistics,
                                                              allocation_size)
                    /\ ret' = [op |-> "allocate_buffer", status |-> "OK",
                               size |-> size, out_buffer |-> FirstFreeSlot,
                               memory |-> buffer_create_memory(struct_malloc_ok,
                                                               backing_ok)]
               ELSE /\ UNCHANGED <<buffers, statistics>>
                    /\ ret' = [op |-> "allocate_buffer", status |-> status,
                               size |-> size, out_buffer |-> 0,
                               memory |-> buffer_create_memory(struct_malloc_ok,
                                                               backing_ok)]
    /\ UNCHANGED <<mock, unit, tt_device, allocator_created, dealloc_calls,
                   expected_allocated>>
    /\ UNCHANGED <<tileVars, mapVars, devVars>>

\* tt_allocator.cc:133 / tt_allocator.c:193-195
stats_after_deallocate_u64(stats, size) ==
    IF unit = "c"
    THEN [stats EXCEPT
            !.host_bytes_freed = u64_add(@, size),
            !.device_bytes_freed = u64_add(@, size)]
    ELSE [stats EXCEPT !.device_bytes_freed = u64_add(@, size)]

\* iree_hal_tt_allocator_deallocate_buffer (tt_allocator.cc:130-134,
\* tt_allocator.c:186-198) called with a buffer that exists.
deallocate_buffer_u64 ==
    /\ allocator_created
    /\ dealloc_calls < MaxDeallocs
    /\ \E slot \in LiveSlots :
        /\ statistics' = stats_after_deallocate_u64(statistics,
                                                    buffers[slot].allocation_size)
        /\ ret' = [op |-> "deallocate_buffer", buffer |-> slot]
    /\ dealloc_calls' = dealloc_calls + 1
    /\ UNCHANGED <<mock, unit, tt_device, allocator_created, buffers, alloc_calls,
                   expected_allocated>>
    /\ UNCHANGED <<tileVars, mapVars, devVars>>

\* iree_hal_tt_allocator_create has returned OK (tt_allocator.cc:34-53); the
\* counters are 64-bit zeros.
LargeInit ==
    /\ mock \in BOOLEAN
    /\ unit \in {"c", "cc"}
    /\ tt_device \in IF mock THEN {"null"} ELSE {"open", "null"}
    /\ allocator_created = TRUE
    /\ statistics = [k \in StatKeys |-> u64(0)]
    /\ buffers = [slot \in Slots |-> NoBuffer]
    /\ ret = [op |-> "allocator_create", status |-> "OK"]
    /\ alloc_calls = 0
    /\ expected_allocated = 0
    /\ dealloc_calls = 0
    /\ mapping = NoMapping
    /\ ub = FALSE
    /\ rt = RtNone
    /\ staging_live = 0
    /\ DevIdle

NextLarge ==
    \/ allocate_buffer_u64
    \/ deallocate_buffer_u64
    \/ query_statistics
    \/ buffer_destroy

InitLarge == LargeInit /\ TileIdle

SpecLarge == InitLarge /\ [][NextLarge]_vars

\* ---------------------------------------------------------------------------
\* The device and its allocator (tt_device.cc:59-191, tt_allocator.cc:59-62)
\* ---------------------------------------------------------------------------

\* What tt::tt_metal::CreateDevice does (tt_device.cc:85-93).
CreateDeviceOutcomes == {"ok", "null", "throws"}

\* An event of a teardown; holds is the number of references the device holds
\* on its allocator when the event starts.
Event(ev, holds) == [ev |-> ev, holds |-> holds]

\* tt_device.cc:70-125  the status iree_hal_tt_device_create ends with.
device_create_status(device_malloc_ok, create_device, queue_ok, allocator_malloc_ok) ==
    IF ~device_malloc_ok THEN "RESOURCE_EXHAUSTED"
    ELSE IF ~mock /\ create_device = "null" THEN "UNAVAILABLE"
    ELSE IF ~mock /\ create_device = "throws" THEN "INTERNAL"
    ELSE IF ~mock /\ ~queue_ok THEN "INTERNAL"
    ELSE allocator_create_result(allocator_malloc_ok, statistics).status

\* tt_device.cc:74,85  device->tt_device once the opening steps are over.
device_create_session(device_malloc_ok, create_device) ==
    IF ~mock /\ device_malloc_ok /\ create_device = "ok" THEN "open" ELSE "null"

\* The allocator record iree_hal_tt_allocator_create gives the next one.
NewAllocator == CHOOSE a \in AllocatorIds :
    /\ allocator_live[a] = "none"
    /\ \A b \in AllocatorIds : allocator_live[b] = "none" => a <= b

\* tt_device.cc:74,122-125 with tt_allocator.cc:40,51  device->device_allocator
\* once iree_hal_tt_allocator_create has answered or was skipped.
device_create_allocator(device_malloc_ok, create_device, queue_ok, allocator_malloc_ok) ==
    IF device_create_status(device_malloc_ok, create_device, queue_ok,
                            allocator_malloc_ok) = "OK"
    THEN NewAllocator
    ELSE 0

\* tt_device.cc:129-141  the failure path of iree_hal_tt_device_create.
device_create_failure_events(device_malloc_ok, sess, dev_alloc) ==
    IF ~device_malloc_ok THEN <<>>
    ELSE (IF ~mock /\ sess # "null"
          THEN <<Event("CloseDevice", IF dev_alloc # 0 THEN 1 ELSE 0)>>
          ELSE <<>>)
         \o (IF dev_alloc # 0
             THEN <<Event("allocator_release", 1)>>
             ELSE <<>>)
         \o <<Event("free_device", 0)>>

\* iree_hal_allocator_release on an allocator record: the count goes down by
\* one and iree_hal_tt_allocator_destroy (tt_allocator.cc:59-62) frees the
\* record when it reaches zero.
release_count(rc, a) == [rc EXCEPT ![a] = @ - 1]

release_live(al, rc, a) ==
    IF rc[a] = 1 THEN [al EXCEPT ![a] = "freed"] ELSE al

\* iree_hal_tt_device_create (tt_device.cc:59-145)
device_create ==
    /\ ~ub
    /\ device = "none"
    /\ \E device_malloc_ok \in BOOLEAN, create_device \in CreateDeviceOutcomes,
          queue_ok \in BOOLEAN, allocator_malloc_ok \in BOOLEAN :
        LET status == device_create_status(device_malloc_ok, create_device,
                                           queue_ok, allocator_malloc_ok)
            sess == device_create_session(device_malloc_ok, create_device)
            dev_alloc == device_create_allocator(device_malloc_ok, create_device,
                                                 queue_ok, allocator_malloc_ok)
            events == IF status = "OK" THEN <<>>
                      ELSE device_create_failure_events(device_malloc_ok, sess,
                                                        dev_alloc)
            closes == Cardinality({i \in DOMAIN events :
                                        events[i].ev = "CloseDevice"})
        IN  /\ ret' = [op |-> "device_create", status |-> status,
                       events |-> events]
            /\ device' = IF status = "OK" THEN "live"
                         ELSE IF device_malloc_ok THEN "freed"
                         ELSE "none"
            /\ session' = IF closes > 0 THEN "closed" ELSE sess
            /\ close_calls' = close_calls + closes
            /\ device_allocator' = IF status = "OK" THEN dev_alloc ELSE 0
            /\ device_holds' = IF status = "OK" THEN 1 ELSE 0
            /\ allocator_live' = IF status = "OK"
                                 THEN [allocator_live EXCEPT ![dev_alloc] = "live"]
                                 ELSE allocator_live
            /\ ref_count' = IF status = "OK"
                            THEN [ref_count EXCEPT ![dev_alloc] = 1]
                            ELSE ref_count
            /\ tt_device' = IF status = "OK" THEN sess ELSE tt_device
            /\ allocator_created' = (status = "OK")
            /\ statistics' = IF status = "OK" THEN ZeroStatistics ELSE statistics
    /\ UNCHANGED <<mock, unit, buffers, alloc_calls, expected_allocated,
                   dealloc_calls, client_refs>>
    /\ UNCHANGED <<tileVars, mapVars>>

\* the session is closed first, as on the failure path of the creation
device_destroy_events_close_first(dev_alloc, holds, sess) ==
    (IF ~mock /\ sess # "null"
     THEN <<Event("CloseDevice", holds)>>
     ELSE <<>>)
    \o (IF dev_alloc # 0
        THEN <<Event("allocator_release", holds)>>
        ELSE <<>>)
    \o <<Event("free_device", 0)>>

\* tt_device.cc:159-169  what iree_hal_tt_device_destroy does, in order.
device_destroy_events(dev_alloc, holds, sess) ==
    (IF dev_alloc # 0
     THEN <<Event("allocator_release", holds)>>
     ELSE <<>>)
    \o (IF ~mock /\ sess # "null"
        THEN <<Event("CloseDevice", IF dev_alloc # 0 THEN 0 ELSE holds)>>
        ELSE <<>>)
    \o <<Event("free_device", 0)>>

\* iree_hal_tt_device_destroy (tt_device.cc:151-171), reached when the last
\* reference to the device is released.
device_destroy ==
    /\ ~ub
    /\ device = "live"
    /\ LET events == device_destroy_events(device_allocator, device_holds, session)
           closes == Cardinality({i \in DOMAIN events :
                                        events[i].ev = "CloseDevice"})
           releases == Cardinality({i \in DOMAIN events :
                                        events[i].ev = "allocator_release"})
       IN  /\ ret' = [op |-> "device_destroy", events |-> events]
           /\ session' = IF closes > 0 THEN "closed" ELSE session
           /\ close_calls' = close_calls + closes
           /\ ref_count' = IF releases > 0
                           THEN release_count(ref_count, device_allocator)
                           ELSE ref_count
           /\ allocator_live' = IF releases > 0
                                THEN release_live(allocator_live, ref_count,
                                                  device_allocator)
                                ELSE allocator_live
           /\ device_holds' = device_holds - releases
    /\ device' = "freed"
    /\ allocator_created' = FALSE
    /\ UNCHANGED <<mock, unit, tt_device, statistics, buffers, alloc_calls,
                   expected_allocated, dealloc_calls, device_allocator,
                   client_refs>>
    /\ UNCHANGED <<tileVars, mapVars>>

\* The allocators the caller has a pointer to: those it holds a reference on
\* and the one iree_hal_tt_device_allocator (tt_device.cc:181-183) answers.
ClientKnown ==
    {a \in AllocatorIds : /\ allocator_live[a] = "live"
                          /\ \/ client_refs[a] > 0
                             \/ (device = "live" /\ device_allocator = a)}

\* tt_device.cc:188 then 190 with new_allocator = the allocator just released
\* for the last time: the retain writes into a freed record.
replace_uses_freed(old, new) ==
    /\ old # 0
    /\ new = old
    /\ ref_count[old] = 1

\* iree_hal_tt_device_replace_allocator (tt_device.cc:185-191)
replace_allocator ==
    /\ ~ub
    /\ device = "live"
    /\ \E new \in ClientKnown :
        LET old == device_allocator
            rc1 == IF old # 0 THEN release_count(ref_count, old) ELSE ref_count
            al1 == IF old # 0 THEN release_live(allocator_live, ref_count, old)
                   ELSE allocator_live
        IN  /\ ret' = [op |-> "replace_allocator", old |-> old, new |-> new,
                       old_count |-> ref_count[old]]
            /\ device_allocator' = new
            /\ allocator_live' = al1
            /\ IF replace_uses_freed(old, new)
               THEN /\ ub' = TRUE
                    /\ ref_count' = rc1
                    /\ device_holds' = 0
               ELSE /\ ub' = ub
                    /\ ref_count' = [rc1 EXCEPT ![new] = @ + 1]
                    /\ device_holds' = 1
    /\ UNCHANGED <<mapping, rt, staging_live>>
    /\ UNCHANGED <<mock, unit, tt_device, allocator_created, statistics, buffers,
                   alloc_calls, expected_allocated, dealloc_calls, device,
                   session, close_calls, client_refs>>
    /\ UNCHANGED tileVars

\* The caller makes an allocator of its own for the device with
\* iree_hal_tt_allocator_create (tt_allocator.cc:34-53, tt_allocator.h).
client_allocator_create ==
    /\ ~ub
    /\ device = "live"
    /\ \E a \in AllocatorIds : allocator_live[a] = "none"
    /\ \E malloc_ok \in BOOLEAN :
        LET res == allocator_create_result(malloc_ok, statistics) IN
        /\ ret' = [op |-> "client_allocator_create", status |-> res.status]
        /\ allocator_live' = IF malloc_ok
                             THEN [allocator_live EXCEPT ![NewAllocator] = "live"]
                             ELSE allocator_live
        /\ ref_count' = IF malloc_ok
                        THEN [ref_count EXCEPT ![NewAllocator] = 1]
                        ELSE ref_count
        /\ client_refs' = IF malloc_ok
                          THEN [client_refs EXCEPT ![NewAllocator] = 1]
                          ELSE client_refs
    /\ UNCHANGED <<mock, unit, tt_device, allocator_created, statistics, buffers,
                   alloc_calls, expected_allocated, dealloc_calls, device,
                   device_allocator, device_holds, session, close_calls>>
    /\ UNCHANGED <<tileVars, mapVars>>

\* iree_hal_allocator_retain by the caller (buffer_test.cc:71 keeps the
\* pointer iree_hal_tt_device_allocator answers).
client_retain ==
    /\ ~ub
    /\ \E a \in ClientKnown :
        /\ client_refs[a] < MaxClientRefs
        /\ ref_count' = [ref_count EXCEPT ![a] = @ + 1]
        /\ client_refs' = [client_refs EXCEPT ![a] = @ + 1]
        /\ ret' = [op |-> "client_retain", allocator |-> a]
    /\ UNCHANGED <<mock, unit, tt_device, allocator_created, statistics, buffers,
                   alloc_calls, expected_allocated, dealloc_calls, device,
                   device_allocator, device_holds, session, close_calls,
                   allocator_live>>
    /\ UNCHANGED <<tileVars, mapVars>>

\* iree_hal_allocator_release by the caller of a reference it holds; the last
\* release runs iree_hal_tt_allocator_destroy (tt_allocator.cc:59-62).
client_release ==
    /\ ~ub
    /\ \E a \in AllocatorIds :
        /\ client_refs[a] > 0
        /\ allocator_live[a] = "live"
        /\ ref_count' = release_count(ref_count, a)
        /\ allocator_live' = release_live(allocator_live, ref_count, a)
        /\ client_refs' = [client_refs EXCEPT ![a] = @ - 1]
        /\ ret' = [op |-> "client_release", allocator |-> a]
    /\ UNCHANGED <<mock, unit, tt_device, allocator_created, statistics, buffers,
                   alloc_calls, expected_allocated, dealloc_calls, device,
                   device_allocator, device_holds, session, close_calls>>
    /\ UNCHANGED <<tileVars, mapVars>>

\* No device yet: iree_hal_tt_device_create is about to be called
\* (device_test.cc:64-66).
DevInit ==
    /\ mock \in BOOLEAN
    /\ unit = "cc"
    /\ tt_device = "null"
    /\ allocator_created = FALSE
    /\ \E g \in GarbageVals : statistics = [k \in StatKeys |-> g]
    /\ buffers = [slot \in Slots |-> NoBuffer]
    /\ ret = [op |-> "none"]
    /\ alloc_calls = 0
    /\ expected_allocated = 0
    /\ dealloc_calls = 0
    /\ mapping = NoMapping
    /\ ub = FALSE
    /\ rt = RtNone
    /\ staging_live = 0
    /\ DevIdle

NextDev ==
    \/ device_create
    \/ device_destroy
    \/ replace_allocator
    \/ client_allocator_create
    \/ client_retain
    \/ client_release

InitDev == DevInit /\ TileIdle

SpecDev == InitDev /\ [][NextDev]_vars

\* ---------------------------------------------------------------------------
\* Properties of the tile transcoder (checked under SpecTile)
\* ---------------------------------------------------------------------------

\* C1: for rows and cols positive multiples of 32 and every array A of
\* rows*cols elements, unpack_from_tiles(pack_to_tiles(A)) equals A element
\* for element.
C1_UnpackOfPackIsIdentity ==
    t_pc = "pack_unpack" =>
        /\ DOMAIN t_out = DOMAIN t_in
        /\ \A i \in DOMAIN t_in : t_out[i] = t_in[i]

C1_Witness ==
    /\ t_pc = "pack_unpack"
    /\ t_rows = 2 * TT_TILE_HEIGHT
    /\ t_cols = 2 * TT_TILE_WIDTH
    /\ t_garbage = Poison
    /\ t_in[TT_TILE_WIDTH] = TT_TILE_WIDTH
    /\ t_mid[TT_TILE_SIZE] = TT_TILE_WIDTH
    /\ t_out[TT_TILE_WIDTH] = TT_TILE_WIDTH

\* C2: for rows and cols positive multiples of 32 and every tile-ordered
\* array T of rows*cols elements, pack_to_tiles(unpack_from_tiles(T)) equals
\* T element for element.
C2_PackOfUnpackIsIdentity ==
    t_pc = "unpack_pack" =>
        /\ DOMAIN t_out = DOMAIN t_in
        /\ \A i \in DOMAIN t_in : t_out[i] = t_in[i]

C2_Witness ==
    /\ t_pc = "unpack_pack"
    /\ t_rows = TT_TILE_HEIGHT
    /\ t_cols = 2 * TT_TILE_WIDTH
    /\ t_garbage = Poison
    /\ t_in[TT_TILE_SIZE] = TT_TILE_SIZE
    /\ t_mid[TT_TILE_WIDTH] = TT_TILE_SIZE
    /\ t_out[TT_TILE_SIZE] = TT_TILE_SIZE

\* The iterations of the loop nest of pack_to_tiles for the current shape.
TileIterations ==
    (0..(t_rows \div TT_TILE_HEIGHT - 1)) \X (0..(t_cols \div TT_TILE_WIDTH - 1))
        \X (0..(TT_TILE_HEIGHT - 1)) \X (0..(TT_TILE_WIDTH - 1))

\* C3: pack_to_tiles sets dst[(tr*(cols/32)+tc)*1024 + r*32 + c] =
\* src[(tr*32+r)*cols + (tc*32+c)] for every tile (tr, tc) and every (r, c)
\* inside it, and the assignment is a bijection on indices: every index of
\* dst in [0, rows*cols) is written exactly once and every index of src in
\* that range is read exactly once.
C3_PackIndexFormulaIsBijection ==
    t_pc = "packed" =>
        LET n == t_rows * t_cols
            written == {tiled_idx(it[1], it[2], it[3], it[4],
                                  t_cols \div TT_TILE_WIDTH) : it \in TileIterations}
            read == {row_major_idx(it[1], it[2], it[3], it[4], t_cols) :
                        it \in TileIterations}
        IN  /\ \A it \in TileIterations :
                t_mid[(it[1] * (t_cols \div 32) + it[2]) * 1024 + it[3] * 32 + it[4]]
                    = t_in[(it[1] * 32 + it[3]) * t_cols + (it[2] * 32 + it[4])]
            /\ Cardinality(TileIterations) = n
            /\ written = 0..(n - 1)
            /\ read = 0..(n - 1)

C3_Witness ==
    /\ t_pc = "packed"
    /\ t_rows = TT_TILE_HEIGHT
    /\ t_cols = TT_TILE_WIDTH
    /\ t_garbage = Poison
    /\ t_in[TT_TILE_WIDTH + 1] = 101
    /\ t_mid[0] = 0
    /\ t_mid[1] = 1
    /\ t_mid[TT_TILE_WIDTH] = 100
    /\ t_mid[TT_TILE_WIDTH + 1] = 101

\* C4: the tiles are enumerated in row-major order over the tile grid: the
\* first element of tile (tr, tc) is at packed index (tr*(cols/32)+tc)*1024
\* and equals src[tr*32*cols + tc*32]; for rows = cols = 64, pack(A)[0] =
\* A[0], pack(A)[1024] = A[32], pack(A)[2048] = A[64*32] and pack(A)[3072] =
\* A[64*32+32].
C4_TileGridRowMajor ==
    t_pc = "packed" =>
        /\ \A tr \in 0..(t_rows \div 32 - 1), tc \in 0..(t_cols \div 32 - 1) :
                t_mid[(tr * (t_cols \div 32) + tc) * 1024]
                    = t_in[tr * 32 * t_cols + tc * 32]
        /\ (t_rows = 64 /\ t_cols = 64) =>
                /\ t_mid[0] = t_in[0]
                /\ t_mid[1024] = t_in[32]
                /\ t_mid[2048] = t_in[64 * 32]
                /\ t_mid[3072] = t_in[64 * 32 + 32]

C4_Witness ==
    /\ t_pc = "packed"
    /\ t_rows = 64
    /\ t_cols = 64
    /\ t_in[64 * 32 + 32] = 64 * 32 + 32
    /\ t_mid[0] = 0
    /\ t_mid[1024] = 32
    /\ t_mid[2048] = 2048
    /\ t_mid[3072] = 2080

\* ---------------------------------------------------------------------------
\* Buffer mapping and allocator claims
\* ---------------------------------------------------------------------------

\* Sizes 4*n*n with n a positive multiple of 32.
SquareTileSizes == {4 * n * n : n \in TileDims}

\* C5: for a buffer of 4*n*n bytes (n a positive multiple of 32), after
\* map(WRITE, 0, size), a fill of the mapping with values V in row-major
\* order, unmap and map(READ, 0, size), the mapping exposes exactly V in the
\* same order, in the host-memory build and in the hardware build, provided
\* the hardware write of the unmap and the hardware read of the second map
\* took place and succeeded.
C5_MapWriteUnmapMapReadRoundTrip ==
    (rt.pc = "r_mapped" /\ buffers[rt.buffer].allocation_size \in SquareTileSizes) =>
        /\ ~ub
        /\ mapping.buffer = rt.buffer
        /\ mapping.byte_offset = 0
        /\ mapping.byte_length = buffers[rt.buffer].allocation_size
        /\ mapped_view = TileFill(rt.fill, buffers[rt.buffer].allocation_size \div 4,
                                  buffers[rt.buffer].cols)

C5_Witness ==
    /\ rt.pc = "r_mapped"
    /\ rt.fill = "seq"
    /\ ~mock
    /\ unit = "cc"
    /\ buffers[rt.buffer].allocation_size = 4 * 64 * 64
    /\ buffers[rt.buffer].backing[1024] = 32
    /\ mapped_view[1024] = 1024
    /\ mapped_view[32] = 32

\* C6: a successful allocate_buffer(s), 0 < s <= max_allocation_size, returns
\* a buffer whose allocation_size is the smallest multiple of 32 that is
\* >= s, and that same value is the size passed to the creation of the
\* backing storage and the amount added to device_bytes_allocated.
C6_AllocateRoundsUpTo32 ==
    [][(alloc_calls' = alloc_calls + 1 /\ ret'.status = "OK" /\ ret'.size > 0) =>
            LET rounded == SmallestMultipleOf32AtLeast(ret'.size)
                buf == buffers'[ret'.out_buffer]
            IN  /\ ret'.size \div 1024 < memory_heap.max_allocation_size_kib
                /\ buffers[ret'.out_buffer] = NoBuffer
                /\ buf.allocation_size = rounded
                /\ buf.backing_size = rounded
                /\ statistics'.device_bytes_allocated =
                        statistics.device_bytes_allocated + rounded]_vars

C6_Witness ==
    /\ ret.op = "allocate_buffer"
    /\ ret.status = "OK"
    /\ ret.size = 33
    /\ buffers[ret.out_buffer].allocation_size = 64
    /\ buffers[ret.out_buffer].backing_size = 64
    /\ statistics.device_bytes_allocated = 4096 + 64

\* C7: after any sequence of allocate_buffer and deallocate_buffer calls,
\* device_bytes_allocated is the sum of the rounded sizes of the
\* allocate_buffer calls that succeeded, and an allocate_buffer call that
\* fails leaves the four counters as they were.
C7_AllocatedIsSumOfRoundedSizes ==
    /\ [](allocator_created =>
            statistics.device_bytes_allocated = expected_allocated)
    /\ [][(alloc_calls' = alloc_calls + 1 /\ ret'.status # "OK") =>
            statistics' = statistics]_vars

C7_Witness ==
    /\ ret.op = "allocate_buffer"
    /\ ret.status # "OK"
    /\ alloc_calls = 2
    /\ dealloc_calls = 1
    /\ expected_allocated = 64
    /\ statistics.device_bytes_allocated = 64
    /\ statistics.device_bytes_freed = 64

\* C8: in every state reached by allocate_buffer and deallocate_buffer calls
\* on one allocator, device_bytes_freed <= device_bytes_allocated and
\* host_bytes_freed <= host_bytes_allocated.
C8_FreedAtMostAllocated ==
    allocator_created =>
        /\ statistics.device_bytes_freed <= statistics.device_bytes_allocated
        /\ statistics.host_bytes_freed <= statistics.host_bytes_allocated

\* C9: the four counters are 0 when the allocator has been created, no
\* allocator operation lowers or resets one of them, and query_statistics
\* hands out the current values and leaves them as they are.
C9_CountersStartAtZeroAndNeverDecrease ==
    [][/\ (~allocator_created /\ allocator_created') =>
                \A k \in StatKeys : statistics'[k] = 0
       /\ allocator_created =>
                \A k \in StatKeys : statistics'[k] >= statistics[k]
       /\ ret'.op = "query_statistics" =>
                /\ ret'.out = statistics
                /\ statistics' = statistics]_vars

C9_Witness ==
    /\ ret.op = "query_statistics"
    /\ ret.out = statistics
    /\ statistics.device_bytes_allocated = 4096
    /\ statistics.device_bytes_freed = 4096
    /\ alloc_calls = 1
    /\ dealloc_calls = 1

\* The heap description of the specification (28 GiB held in KiB).
SpecifiedHeap ==
    [type |-> "DEVICE_LOCAL",
     allowed_usage |-> {"TRANSFER", "DISPATCH_STORAGE",
                        "DISPATCH_INDIRECT_PARAMETERS", "DISPATCH_UNIFORM_READ"},
     max_allocation_size_kib |-> 28 * 1024 * 1024,
     min_alignment |-> 32]

\* C10: query_memory_heaps always reports count = 1; with capacity 0 it
\* writes nothing to the heaps array, and with capacity >= 1 (and an array
\* to write to) it writes exactly one heap: device-local, at most 28 GiB per
\* allocation, alignment 32, usage transfer | dispatch-storage |
\* dispatch-indirect-params | dispatch-uniform-read, whatever the allocator
\* did before.
C10_QueryMemoryHeapsFixedHeap ==
    ret.op = "query_memory_heaps" =>
        /\ ret.out_count = 1
        /\ ret.capacity = 0 => ret.heaps = <<>>
        /\ (ret.capacity >= 1 /\ ret.heaps_given) => ret.heaps = <<SpecifiedHeap>>

\* C11: query_buffer_compatibility rounds the in/out size up to the next
\* multiple of 32 in every case (also when the result is NONE), returns NONE
\* when the requested memory type does not include device-local and exactly
\* ALLOCATABLE (no import/export flag) otherwise, and changes no allocator
\* state.
C11_QueryBufferCompatibility ==
    /\ [](ret.op = "query_buffer_compatibility" =>
            /\ ret.out_size = SmallestMultipleOf32AtLeast(ret.size)
            /\ ret.compatibility = IF ret.type = "DEVICE_LOCAL"
                                   THEN {"ALLOCATABLE"} ELSE {})
    /\ [][ret'.op = "query_buffer_compatibility" =>
            UNCHANGED <<allocator_created, statistics, buffers, tt_device>>]_vars

\* C12: allocate_buffer with a requested size of 0 fails with
\* INVALID_ARGUMENT: it returns no buffer, creates no backing storage and
\* leaves the statistics unchanged.
C12_AllocateZeroIsInvalidArgument ==
    [][(alloc_calls' = alloc_calls + 1 /\ ret'.size = 0) =>
            /\ ret'.status = "INVALID_ARGUMENT"
            /\ ret'.out_buffer = 0
            /\ buffers' = buffers
            /\ statistics' = statistics]_vars

C14_BackingFailureCleansUp ==
    [][(/\ alloc_calls' = alloc_calls + 1
        /\ ret'.memory.backing_calls = 1
        /\ ret'.memory.backing_allocs = 0) =>
            /\ ret'.status = "RESOURCE_EXHAUSTED"
            /\ ret'.out_buffer = 0
            /\ ret'.memory.record_mallocs = 1
            /\ ret'.memory.record_frees = 1
            /\ ret'.memory.backing_frees = ret'.memory.backing_allocs
            /\ buffers' = buffers
            /\ statistics' = statistics]_vars

C14_Witness ==
    /\ ret.op = "allocate_buffer"
    /\ ~mock
    /\ unit = "cc"
    /\ ret.status = "RESOURCE_EXHAUSTED"
    /\ ret.memory.backing_calls = 1
    /\ ret.memory.backing_allocs = 0
    /\ ret.memory.record_frees = 1
    /\ alloc_calls = 2
    /\ statistics.device_bytes_allocated = 4096
    /\ LiveSlots # {}

\* The heap's max_allocation_size in bytes.
max_allocation_size_u64 == u64_mul(u64(memory_heap.max_allocation_size_kib), 1024)

\* C15: no allocate_buffer call succeeds with a rounded size greater than
\* the heap's max_allocation_size (28 GiB): every buffer that exists has
\* allocation_size <= max_allocation_size and allocation_size %
\* min_alignment = 0.
C15_NoBufferBeyondMaxAllocationSize ==
    \A slot \in LiveSlots :
        /\ u64_le(buffers[slot].allocation_size, max_allocation_size_u64)
        /\ u64_mod(buffers[slot].allocation_size, memory_heap.min_alignment) = 0

\* floor(sqrt(n))
FloorSqrt(n) == CHOOSE r \in 0..n : r * r <= n /\ (r + 1) * (r + 1) > n

\* The shape the specification gives a buffer of this allocation size.
SpecifiedDim(allocation_size) ==
    LET n == allocation_size \div 4 IN
    IF n = 1024 THEN 32
    ELSE CHOOSE m \in FloorSqrt(n)..(FloorSqrt(n) + 31) : m % 32 = 0

\* C16: at buffer construction, with n = allocation_size / 4: if n = 1024
\* then rows = cols = 32, otherwise rows = cols = floor(sqrt(n)) rounded up to
\* the next multiple of 32; uses_tile_layout is true exactly when rows % 32 =
\* 0 and cols % 32 = 0; rows, cols and uses_tile_layout never change
\* afterwards.
\* (tt_buffer.c keeps no uses_tile_layout field: it transcodes always.)
C16_ShapeInference ==
    /\ [](\A slot \in LiveSlots :
            /\ buffers[slot].rows = SpecifiedDim(buffers[slot].allocation_size)
            /\ buffers[slot].cols = SpecifiedDim(buffers[slot].allocation_size)
            /\ unit = "cc" =>
                    buffers[slot].uses_tile_layout =
                        (buffers[slot].rows % 32 = 0 /\ buffers[slot].cols % 32 = 0))
    /\ [][\A slot \in Slots :
            (buffers[slot] # NoBuffer /\ buffers'[slot] # NoBuffer) =>
                /\ buffers'[slot].rows = buffers[slot].rows
                /\ buffers'[slot].cols = buffers[slot].cols
                /\ buffers'[slot].uses_tile_layout =
                        buffers[slot].uses_tile_layout]_vars

C16_Witness ==
    /\ ret.op = "deallocate_buffer"
    /\ buffers[ret.buffer].allocation_size = 64
    /\ buffers[ret.buffer].rows = 32
    /\ buffers[ret.buffer].cols = 32
    /\ buffers[ret.buffer].uses_tile_layout

\* C17: every buffer returned by allocate_buffer satisfies: if
\* uses_tile_layout then rows % 32 = 0 and cols % 32 = 0, and rows * cols * 4
\* = allocation_size.
C17_ShapeCoversAllocation ==
    \A slot \in LiveSlots :
        /\ buffers[slot].uses_tile_layout =>
                (buffers[slot].rows % 32 = 0 /\ buffers[slot].cols % 32 = 0)
        /\ buffers[slot].rows * buffers[slot].cols * 4 = buffers[slot].allocation_size


\* C18: a map_range with READ access whose device read fails still returns
\* OK, the whole mapped region of byte_length bytes reads as zero, and the
\* buffer (backing content, rows, cols, layout) is as it was.
C18_FailedReadMapsZeros ==
    [][(ret'.op = "map_range" /\ ret'.hw_read = "failed")
        => /\ ret'.status = "OK"
           /\ mapping' # NoMapping
           /\ mapped_view' = ZeroArray(mapping'.byte_length \div 4)
           /\ buffers' = buffers]_vars

\* A READ mapping with a failed device read over a backing allocation that
\* holds a nonzero element, read back as zeros.
C18_Witness ==
    /\ ret.op = "map_range"
    /\ ret.hw_read = "failed"
    /\ mapping # NoMapping
    /\ \E i \in DOMAIN buffers[mapping.buffer].backing :
            buffers[mapping.buffer].backing[i] # 0
    /\ mapped_view = ZeroArray(mapping.byte_length \div 4)

\* C19: unmap_range writes to the backing allocation only if the mapping was
\* opened with WRITE access: unmapping a READ-only mapping leaves the backing
\* content as it was and issues no device write.
C19_ReadOnlyUnmapWritesNothing ==
    [][(ret'.op = "unmap_range" /\ "WRITE" \notin ret'.access)
        => /\ buffers' = buffers
           /\ ret'.hw_write = "none"]_vars

\* C20: unmap_range returns OK whether the device write went through, failed,
\* or the temporary tile buffer could not be allocated; it gives the staging
\* region back exactly once and empties the mapping, so no staging region is
\* left once every map_range has met its unmap_range.  (Calls that leave
\* their allocations are outside the statement.)
C20_UnmapReleasesStaging ==
    /\ [][(ret'.op = "unmap_range" /\ ~ub')
            => /\ ret'.status = "OK"
               /\ ret'.memory.staging_frees = staging_live
               /\ staging_live' = 0
               /\ mapping' = NoMapping]_vars
    /\ [](mapping = NoMapping => staging_live = 0)
    /\ []((mapping # NoMapping /\ ~mock) => staging_live = 1)

\* An unmap_range whose device write failed, with the staging region given
\* back once and the mapping empty.
C20_Witness ==
    /\ ret.op = "unmap_range"
    /\ ret.hw_write = "failed"
    /\ ret.status = "OK"
    /\ ret.memory.staging_frees = 1
    /\ staging_live = 0
    /\ mapping = NoMapping


\* ---------------------------------------------------------------------------
\* Properties of the device (checked under SpecDev)
\* ---------------------------------------------------------------------------

\* C21: from a successful device creation until the device is destroyed the
\* device holds exactly one reference to exactly one allocator that exists
\* (device_allocator is never null); replace_allocator(new) leaves the device
\* holding one reference to new and drops exactly the one reference it held
\* on the old allocator.
C21_DeviceHoldsOneAllocator ==
    /\ [](device = "live"
            => /\ device_allocator # 0
               /\ allocator_live[device_allocator] = "live"
               /\ device_holds = 1
               /\ ref_count[device_allocator]
                    = client_refs[device_allocator] + 1)
    /\ [][ret'.op = "replace_allocator"
            => /\ device_allocator' = ret'.new
               /\ device_holds' = 1
               /\ ret'.old # ret'.new
                    => ref_count'[ret'.old] = ref_count[ret'.old] - 1]_vars

\* C22: on every path that tears a device down (device_destroy and the
\* failure path of device_create) the allocator is released before the
\* session is closed: no CloseDevice happens while the device holds its
\* allocator reference or before a release of the same teardown, and a
\* session that was opened is closed exactly once.
C22_AllocatorReleasedBeforeSessionClosed ==
    /\ [](ret.op \in {"device_create", "device_destroy"}
            => \A i \in DOMAIN ret.events :
                ret.events[i].ev = "CloseDevice"
                    => /\ ret.events[i].holds = 0
                       /\ \A j \in DOMAIN ret.events :
                            ret.events[j].ev = "allocator_release" => j < i)
    /\ [](close_calls = IF session = "closed" THEN 1 ELSE 0)
    /\ [](device = "freed" => session # "open")
    /\ [](session = "closed" => device = "freed")

\* A hardware device destroyed: the allocator released, then the session
\* closed, once.
C22_Witness ==
    /\ ret.op = "device_destroy"
    /\ Len(ret.events) = 3
    /\ ret.events[1].ev = "allocator_release"
    /\ ret.events[2].ev = "CloseDevice"
    /\ session = "closed"
    /\ close_calls = 1

\* C28: replace_allocator never uses an allocator after its last reference
\* was dropped; called with the allocator the device already holds, it
\* leaves that allocator alive with the reference count it had.
C28_ReplaceNeverUsesFreedAllocator ==
    [][ret'.op = "replace_allocator"
        => /\ ~ub'
           /\ ret'.new = ret'.old
                => /\ allocator_live'[ret'.new] = "live"
                   /\ ref_count'[ret'.new] = ref_count[ret'.new]]_vars


\* ---------------------------------------------------------------------------
\* Properties of deallocation (checked under SpecFrame)
\* ---------------------------------------------------------------------------

\* C23: deallocate_buffer(buffer) adds the buffer's allocation_size to
\* device_bytes_freed and leaves the buffer alone: the backing memory stays
\* allocated, its content, the shape and an outstanding mapping are as they
\* were; the backing is given back only by buffer_destroy, once.
C23_DeallocateLeavesBuffer ==
    /\ [][ret'.op = "deallocate_buffer"
            => /\ statistics'.device_bytes_freed
                    = statistics.device_bytes_freed
                        + buffers[ret'.buffer].allocation_size
               /\ statistics'.device_bytes_allocated
                    = statistics.device_bytes_allocated
               /\ buffers' = buffers
               /\ mapping' = mapping
               /\ staging_live' = staging_live]_vars
    /\ [][\A slot \in Slots :
            (buffers[slot] # NoBuffer /\ buffers'[slot] = NoBuffer)
                => /\ ret'.op = "buffer_destroy"
                   /\ ret'.buffer = slot
                   /\ ret'.memory.backing_frees = 1]_vars

\* A buffer deallocated twice while a mapping of it is open, still there.
C23_Witness ==
    /\ ret.op = "deallocate_buffer"
    /\ dealloc_calls = 2
    /\ mapping # NoMapping
    /\ mapping.buffer = ret.buffer
    /\ buffers[ret.buffer] # NoBuffer
    /\ statistics.device_bytes_freed = 2 * buffers[ret.buffer].allocation_size


\* ---------------------------------------------------------------------------
\* Properties of the hardware mapping path (checked under SpecMap)
\* ---------------------------------------------------------------------------

\* T is pack(S, rows, cols): both hold rows*cols elements and
\* T[(tr*(cols/32)+tc)*1024 + r*32 + c] = S[(tr*32+r)*cols + tc*32+c].
IsPackOf(T, S, rows, cols) ==
    /\ DOMAIN T = 0..(rows * cols - 1)
    /\ DOMAIN S = 0..(rows * cols - 1)
    /\ \A tr \in 0..(rows \div 32 - 1), tc \in 0..(cols \div 32 - 1),
          r \in 0..31, c \in 0..31 :
        T[(tr * (cols \div 32) + tc) * 1024 + r * 32 + c]
            = S[(tr * 32 + r) * cols + (tc * 32 + c)]

\* C24: in the hardware build, after the unmap of a full-range WRITE mapping
\* whose device write succeeded the backing allocation holds
\* pack(S, rows, cols), S being the staging content at the unmap; and a
\* full-range READ mapping whose device read succeeded exposes
\* unpack(B, rows, cols), B being the backing content at the map.
C24_HardwarePackOnUnmapUnpackOnMap ==
    /\ [][(/\ ret'.op = "unmap_range"
           /\ ret'.hw_write = "ok"
           /\ "WRITE" \in ret'.access
           /\ mapping.byte_offset = 0
           /\ mapping.byte_length = buffers[mapping.buffer].allocation_size)
            => IsPackOf(buffers'[mapping.buffer].backing, mapping.staging,
                        buffers[mapping.buffer].rows,
                        buffers[mapping.buffer].cols)]_vars
    /\ [][(/\ ret'.op = "map_range"
           /\ ret'.hw_read = "ok"
           /\ mapping'.byte_offset = 0
           /\ mapping'.byte_length = buffers[mapping'.buffer].allocation_size)
            => IsPackOf(buffers[mapping'.buffer].backing, mapping'.staging,
                        buffers[mapping'.buffer].rows,
                        buffers[mapping'.buffer].cols)]_vars


\* C25: when the staging region, or the temporary read-back buffer, cannot be
\* allocated, map_range fails with RESOURCE_EXHAUSTED, leaves no host memory
\* of its own allocated (a staging region already obtained is freed), issues
\* no device read and leaves the caller's mapping and the buffer as they were.
C25_MapAllocationFailure ==
    [][(/\ ret'.op = "map_range"
        /\ ~mock
        /\ \/ ret'.memory.staging_mallocs = 0
           \/ (unit = "cc" /\ "READ" \in ret'.access
                           /\ ret'.memory.tiled_mallocs = 0))
        => /\ ret'.status = "RESOURCE_EXHAUSTED"
           /\ ret'.memory.staging_frees = ret'.memory.staging_mallocs
           /\ ret'.memory.tiled_frees = ret'.memory.tiled_mallocs
           /\ staging_live' = staging_live
           /\ ret'.hw_read = "none"
           /\ mapping' = mapping
           /\ buffers' = buffers]_vars

\* A READ map_range whose read-back buffer could not be allocated: the
\* staging region was obtained and freed again.
C25_Witness ==
    /\ ret.op = "map_range"
    /\ ret.status = "RESOURCE_EXHAUSTED"
    /\ "READ" \in ret.access
    /\ ret.memory.staging_mallocs = 1
    /\ ret.memory.staging_frees = 1
    /\ ret.memory.tiled_mallocs = 0
    /\ staging_live = 0
    /\ mapping = NoMapping


\* C26: for every buffer allocate_buffer can return and every full-range
\* map/unmap of it (offset 0, length = allocation_size), every element that
\* pack_to_tiles and unpack_from_tiles read or write lies inside both the
\* staging region and the temporary tile buffer, i.e. rows*cols*4 <=
\* allocation_size: no transcoding step goes past either region.
C26_FullRangeTranscodingInBounds ==
    /\ [][(/\ ret'.op = "map_range"
           /\ ret'.status = "OK"
           /\ mapping'.byte_offset = 0
           /\ mapping'.byte_length = buffers[mapping'.buffer].allocation_size)
            => /\ ~ub'
               /\ buffers[mapping'.buffer].rows * buffers[mapping'.buffer].cols * 4
                    <= buffers[mapping'.buffer].allocation_size]_vars
    /\ [][(/\ ret'.op = "unmap_range"
           /\ mapping.byte_offset = 0
           /\ mapping.byte_length = buffers[mapping.buffer].allocation_size)
            => /\ ~ub'
               /\ buffers[mapping.buffer].rows * buffers[mapping.buffer].cols * 4
                    <= buffers[mapping.buffer].allocation_size]_vars

\* Element i of the logical row-major content of a buffer: the backing
\* allocation itself in the host-memory build, the element the tile order
\* puts at (i / cols, i % cols) in the hardware build.
LogicalAt(buf, i) ==
    IF mock THEN buf.backing[i]
    ELSE LET r == i \div buf.cols
             c == i % buf.cols
             t == ((r \div 32) * (buf.cols \div 32) + (c \div 32)) * 1024
                    + (r % 32) * 32 + (c % 32)
         IN  IF t \in DOMAIN buf.backing THEN buf.backing[t] ELSE Poison

\* C27: a READ mapping opened with byte offset o and length l (o + l <=
\* allocation_size) exposes exactly the bytes [o, o+l) of the buffer's
\* logical row-major content, and the unmap of a WRITE mapping of that range
\* changes only the bytes [o, o+l) of the logical content, in the hardware
\* build as in the host-memory build (device reads and writes succeeding).
C27_MappingCoversItsRange ==
    /\ [][(/\ ret'.op = "map_range"
           /\ ret'.status = "OK"
           /\ "READ" \in ret'.access
           /\ (mock \/ ret'.hw_read = "ok"))
            => \A i \in 0..(mapping'.byte_length \div 4 - 1) :
                mapped_view'[i]
                    = LogicalAt(buffers[mapping'.buffer],
                                mapping'.byte_offset \div 4 + i)]_vars
    /\ [][(/\ ret'.op = "unmap_range"
           /\ "WRITE" \in ret'.access
           /\ (mock \/ ret'.hw_write = "ok"))
            => \A i \in 0..(buffers[mapping.buffer].allocation_size \div 4 - 1) :
                \/ /\ i >= mapping.byte_offset \div 4
                   /\ i < (mapping.byte_offset + mapping.byte_length) \div 4
                \/ LogicalAt(buffers'[mapping.buffer], i)
                    = LogicalAt(buffers[mapping.buffer], i)]_vars


\* ---------------------------------------------------------------------------
\* Properties of large sizes (checked under SpecLarge)
\* ---------------------------------------------------------------------------

\* 2^31 - 1, the largest int32_t.
Int32Max == 2147483647

\* C29: for every allocation size allocate_buffer accepts, up to the heap's
\* max_allocation_size of 28 GiB, rows, cols and every index pack_to_tiles
\* and unpack_from_tiles compute fit a signed 32-bit integer:
\* rows*cols <= 2^31 - 1.
C29_ShapeAndIndicesFitInt32 ==
    \A slot \in LiveSlots :
        u64_le(buffers[slot].allocation_size, max_allocation_size_u64)
            => /\ buffers[slot].rows <= Int32Max
               /\ buffers[slot].cols <= Int32Max
               /\ u64_le(last_transcode_idx_u64(buffers[slot].rows,
                                                buffers[slot].cols),
                         u64(Int32Max))
               /\ u64_le(u64_mul_wide(u64(buffers[slot].rows),
                                       buffers[slot].cols),
                         u64(Int32Max))

\* C30: for every unsigned 64-bit requested size s the rounded size
\* ((s + 31) / 32) * 32 is >= s: the addition does not wrap modulo 2^64, and
\* no request above 2^64 - 32 is accepted as a smaller (or zero) size.
C30_RoundingNeverWraps ==
    [][(alloc_calls' = alloc_calls + 1 /\ ret'.status = "OK")
        => u64_le(ret'.size, buffers'[ret'.out_buffer].allocation_size)]_vars

====
